---------------------------- MODULE Spec2Model ----------------------------
(***************************************************************************)
(* Model of DFGviz's git-history dataflow analyzer                         *)
(* (src/git_history_dataflow_analyzer.py): the read-only history traversal *)
(* of SafeGitHistoryAnalyzer (analyze_all_commits, analyze_commit_safely,  *)
(* get_file_content_at_commit) and the part of GitHistoryDataflowGUI that  *)
(* starts it on a background thread (start_analysis, analyze_thread).      *)
(*                                                                         *)
(* External collaborators (git, the file system, the dataflow analyzer,    *)
(* the caller's progress callback) are nondeterministic: every call        *)
(* returns one of the outcomes the code distinguishes.                     *)
(***************************************************************************)
EXTENDS Integers, Sequences, FiniteSets, TLC

(***************************************************************************)
(* Bounds                                                                  *)
(***************************************************************************)
\* Largest number of revisions `git log --oneline --all` lists in one run.
MaxRevs == 2
\* Largest number of Tk `after` callbacks waiting when a run is accepted.
MaxPending == 1
\* Deepest path find_git_repo_root is called on.
MaxDepth == 2
\* Largest number of lines of a CMakeLists.txt.
MaxLines == 3

(***************************************************************************)
(* Paths.  A path is a sequence of components and a component a sequence   *)
(* of characters, so that the string test rel_path.startswith('..') can be *)
(* computed as the code computes it.                                       *)
(***************************************************************************)
cUp      == <<".", ".">>
cRepo    == <<"r">>
cOther   == <<"o">>
cTmp     == <<"t">>
cPkg     == <<"p">>
cA       == <<"a">>
cB       == <<"b">>
cDots    == <<".", ".", "c">>

\* The repository root the analyzer is bound to, and the target files the
\* caller may list: two files inside the repository (one in a package
\* directory), one outside it, and one inside it whose name begins with "..".
RepoRoot == <<cRepo>>
FA       == <<cRepo, cA>>
FB       == <<cRepo, cPkg, cB>>
FOut     == <<cOther, cA>>
FDots    == <<cRepo, cDots>>

\* The file lists a caller supplies (files_listbox / --files).
TargetChoices ==
    { <<>>, <<FA>>, <<FA, FB>>, <<FOut, FA>>, <<FDots, FA>> }

RECURSIVE CommonPrefixLen(_, _)
CommonPrefixLen(p, q) ==
    IF p = <<>> \/ q = <<>> \/ Head(p) # Head(q) THEN 0
    ELSE 1 + CommonPrefixLen(Tail(p), Tail(q))

RECURSIVE Ups(_)
Ups(n) == IF n = 0 THEN <<>> ELSE <<cUp>> \o Ups(n - 1)

\* os.path.relpath(path, start) on normalised absolute paths.
RelPath(path, start) ==
    LET k   == CommonPrefixLen(path, start)
        rel == Ups(Len(start) - k) \o SubSeq(path, k + 1, Len(path))
    IN  IF rel = <<>> THEN << <<".">> >> ELSE rel

\* rel_path.startswith('..') on the joined string: its first two characters
\* are those of the first component when that has at least two characters
\* (otherwise the second character is the separator).
StartsWithDotDot(rel) ==
    /\ Len(rel) >= 1
    /\ Len(rel[1]) >= 2
    /\ rel[1][1] = "."
    /\ rel[1][2] = "."

\* Faulty variant: no target file is skipped.
SkippedAsOutside_Never(path, root) == FALSE

\* The test of line 116 that decides whether a target file is skipped.
SkippedAsOutside(path, root) == StartsWithDotDot(RelPath(path, root))

\* Whether `path` really lies under the directory `root`.
IsUnder(path, root) ==
    /\ Len(path) > Len(root)
    /\ SubSeq(path, 1, Len(root)) = root

\* tempfile.mkdtemp(prefix='git_analysis_<hash>_'): a fresh directory under
\* the system temporary directory, one per call.
TempDirOf(commit) == <<cTmp, <<commit>> >>

\* Path(temp_dir) / rel_path
JoinPath(dir, rel) == dir \o rel

(***************************************************************************)
(* Values                                                                  *)
(***************************************************************************)
RevName == <<"c1", "c2", "c3", "c4", "c5">>

\* commits of line 197 for a log of n lines: the first token of each line.
CommitsOf(n) == [k \in 1..n |-> RevName[k]]

Repos == {"repo", "notrepo"}
\* (self.repo_path / '.git').exists()
IsGitRepo(p) == p = "repo"

NoneVal == [kind |-> "none"]
Keys == {"variables", "metadata", "other"}
MkDict(v, m, o) ==
    [kind |-> "dict", d |-> [variables |-> v, metadata |-> m, other |-> o]]
\* What run_complete_dataflow_analysis may hand back: None, a non-dict
\* (a list), the empty dict, and dicts with or without the two keys.
EmptyDict == MkDict("missing", "missing", "missing")
DOther    == MkDict("missing", "missing", "nonempty")
DVars     == MkDict("nonempty", "missing", "missing")
DMeta     == MkDict("missing", "nonempty", "missing")
AnalyzerReturns ==
    { NoneVal, [kind |-> "list"], EmptyDict, DOther, DVars, DMeta }

\* Python truthiness of an analyzer return value.
Truthy(v) ==
    CASE v.kind = "none" -> FALSE
      [] v.kind = "list" -> TRUE
      [] v.kind = "dict" -> \E k \in Keys : v.d[k] # "missing"

\* Faulty variant: a truthy dict is returned as the analyzer gave it.
ValidateResult_NoFill(v) ==
    IF Truthy(v) /\ v.kind = "dict" THEN v ELSE NoneVal

\* Lines 144-154: a truthy dict gets its missing 'variables' and 'metadata'
\* keys filled with empty mappings and is returned; anything else is None.
ValidateResult(v) ==
    IF Truthy(v) /\ v.kind = "dict"
    THEN [kind |-> "dict",
          d |-> [k \in Keys |->
                   IF k \in {"variables", "metadata"} /\ v.d[k] = "missing"
                   THEN "empty" ELSE v.d[k]]]
    ELSE NoneVal

\* result.get(key) is truthy
GetTruthy(res, key) == res.d[key] = "nonempty"

\* Faulty variant: every dict is stored, with or without data.
ShouldStore_AnyDict(res) == res.kind = "dict"

\* Lines 213-215: the result is stored.
ShouldStore(res) ==
    /\ res.kind = "dict"
    /\ (GetTruthy(res, "variables") \/ GetTruthy(res, "metadata"))

EmptyMap == [r \in {} |-> NoneVal]
\* results[commit_hash] = result
MapPut(m, key, val) ==
    [r \in DOMAIN m \cup {key} |-> IF r = key THEN val ELSE m[r]]

(***************************************************************************)
(* git.  A command is applied to the repository state (HEAD, refs, working *)
(* tree); the two commands the analyzer issues leave it as it is.          *)
(***************************************************************************)
RepoInitial == [head |-> "h0", refs |-> "refs0", dirty |-> {}]

GitApply(cmd, st) ==
    CASE cmd = "log --oneline --all" -> st
      [] cmd = "show"                -> st
      [] cmd = "checkout"            -> [st EXCEPT !.head = "detached"]
      [] OTHER                       -> st

\* Faulty variant of the lookup: the file is read by checking the commit out.
FetchCmd_Checkout == "checkout"

\* Line 189: the enumeration command.
EnumerateCmd == "log --oneline --all"
\* Line 82: the content lookup, `git show <commit>:<path>`.
FetchCmd == "show"

\* write_text(path): a write under the repository root changes the working
\* tree; a write elsewhere does not.
WriteApply(path, st) ==
    IF IsUnder(path, RepoRoot) THEN [st EXCEPT !.dirty = @ \cup {path}] ELSE st

\* Faulty variant: the CalledProcessError of a missing path is not caught.
GetFileContentAtCommit_Unguarded(exists, decodable) ==
    IF ~exists THEN [kind |-> "raise", exc |-> "CalledProcessError"]
    ELSE IF decodable THEN [kind |-> "text"]
    ELSE [kind |-> "raise", exc |-> "UnicodeDecodeError"]

\* Lines 80-91: get_file_content_at_commit.  `exists` is whether the path
\* exists at the commit, `decodable` whether its bytes are valid text.
\* git show exits non-zero for a missing path (CalledProcessError, caught);
\* text=True makes subprocess.run raise UnicodeDecodeError on other bytes.
GetFileContentAtCommit(exists, decodable) ==
    IF ~exists THEN [kind |-> "none"]
    ELSE IF decodable THEN [kind |-> "text"]
    ELSE [kind |-> "raise", exc |-> "UnicodeDecodeError"]


(***************************************************************************)
(* Progress events                                                         *)
(***************************************************************************)
\* str(n) and int(s) for the counters of a progress message.
Digits == <<"1", "2", "3", "4", "5", "6">>
StrOf(n) == Digits[n]
IntOf(str) == CHOOSE n \in 1..Len(Digits) : Digits[n] = str

\* Line 209: f"Processing commit {i+1}/{total}: {commit_hash[:8]}", as the
\* pieces the callback's split calls see.
ProcessingMsg(current, total, hash) ==
    <<"Processing commit", " ", StrOf(current), "/", StrOf(total), ":", " ",
      hash>>

\* str.split(sep)[0]: the pieces before the first sep.
RECURSIVE UpTo(_, _)
UpTo(str, sep) ==
    IF str = <<>> \/ Head(str) = sep THEN <<>>
    ELSE <<Head(str)>> \o UpTo(Tail(str), sep)

\* str.strip() on pieces: blanks removed.
Strip(str) == LET NotBlank(t) == t # " " IN SelectSeq(str, NotBlank)

NoEvent == [current |-> 0, total |-> 0]

\* Faulty variant: the two counters are taken in the wrong order.
EnhancedProgress_Swapped(msg, prev) ==
    IF Head(msg) # "Processing commit" THEN prev
    ELSE LET parts == Strip(UpTo(Tail(msg), ":"))
         IN  IF \E k \in DOMAIN parts : parts[k] = "/"
             THEN [current |-> IntOf(parts[Len(parts)]),
                   total   |-> IntOf(UpTo(parts, "/")[1])]
             ELSE prev

\* Lines 1025-1037: enhanced_progress_callback takes "X/Y" out of a
\* 'Processing commit' message and hands int(X), int(Y) to update_progress;
\* any other message leaves the counters as they are.
EnhancedProgress(msg, prev) ==
    IF Head(msg) # "Processing commit" THEN prev
    ELSE LET parts == Strip(UpTo(Tail(msg), ":"))
         IN  IF \E k \in DOMAIN parts : parts[k] = "/"
             THEN [current |-> IntOf(UpTo(parts, "/")[1]),
                   total   |-> IntOf(parts[Len(parts)])]
             ELSE prev

\* Line 921: percent = (current / total) * 100, for total > 0.
Percent(ev) == (ev.current * 100) \div ev.total

(***************************************************************************)
(* State                                                                   *)
(***************************************************************************)
VARIABLES
    \* GitHistoryDataflowGUI (the control context, Tk's main thread)
    repo_path,        \* self.repo_path
    analyzer,         \* self.analyzer: "None", or the repository it is bound to
    files_listbox,    \* the target files listed
    is_analyzing,     \* self.is_analyzing
    analyze_button,   \* state of self.analyze_button
    gui_results,      \* self.results
    afterQ,           \* callbacks queued with root.after, not yet run
    lastStart,        \* what the last start_analysis call answered
    export_file,      \* what the export_results call that just returned wrote
    report,           \* what analyze_thread logged about the run
    \* threads
    active,           \* analyze_thread threads that have not reached `finally`
    pc,               \* where the worker is
    \* analyze_all_commits / analyze_commit_safely (the worker's locals)
    target_files, commits, i, fidx, temp_dir, temp_files, content, result,
    results, err,
    progress_msg,     \* the last message the pass handed to progress_callback
    target_function,  \* the closure's target_function (line 897)
    language,         \* analyze_thread's language (line 931)
    trav,             \* how the analyze_all_commits call ended
    \* environment
    analysis_module,  \* run_complete_dataflow_analysis was imported (line 24)
    clang_module,     \* analyze_cpp_file was imported and usable (line 30)
    repoState,        \* HEAD, refs and working tree of the repository
    gitOps,           \* the git commands issued since the run started
    tree,             \* the target files that exist at the current revision
    sandboxes,        \* sandbox directories of this run that are on disk
    \* history of the run
    created,          \* sandbox directories mkdtemp created
    warned,           \* sandbox directories whose removal failed (line 176)
    attempted,        \* revisions that entered analyze_commit_safely
    invoked,          \* revisions for which the analyzer was called
    failedAt,         \* revisions whose analyzer call raised or was invalid
    outcome,          \* what analyze_commit_safely returned, per revision
    noted,            \* revisions reported as having no dataflow data
    processing,       \* counters of the last 'Processing commit' event
    \* which thread created and wrote what
    results_obj,      \* the thread that created the dict self.results names
    wrote_obj,        \* the creator of the dict the worker last stored into
    display_arg,      \* the dict the worker queued for display_results
    \* the helpers called outside a run (main, CMakeParser)
    tool_call,        \* the arguments and the file system of the call
    settings,         \* CMakeParser.settings
    returned,         \* what the call returned
    \* generate_html_graphs.generate_thread
    gen_pc,           \* where the generation thread stands
    sorted_commits,   \* list(self.results.keys())
    idx,              \* position in sorted_commits (counted from 1)
    defined_functions,\* metadata['defined_functions'] of the commit
    func_k,           \* position in defined_functions (counted from 1)
    temp_dir_for_func,\* the git_func_ directory of the commit, or NoDir
    func_dirs,        \* the git_func_ directories on disk
    func_failed,      \* the git_func_ directories whose removal failed
    gen_path,         \* what happened in the current iteration
    \* CMakeParser._parse, one loop iteration at a time
    parse_pc,         \* "none", "parse" (line 45), "scan" (line 116), "done"
    parse_i,          \* i of _parse (counted from 1)
    scan_i            \* i of _parse_file_list (counted from 1)

guiKept    == <<repo_path, analyzer, files_listbox, is_analyzing,
                analyze_button, gui_results, afterQ, lastStart, report>>
guiVars    == <<guiKept, export_file>>
threadVars == <<active, pc>>
passVars   == <<fidx, temp_dir, temp_files, content, result, err,
                progress_msg>>
runVars    == <<target_function, language, clang_module>>
refVars    == <<results_obj, wrote_obj, display_arg>>
travVars   == <<target_files, commits, i, results, trav>>
htmlVars   == <<gen_pc, sorted_commits, idx, defined_functions, func_k,
                temp_dir_for_func, func_dirs, func_failed, gen_path>>
parseVars  == <<parse_pc, parse_i, scan_i>>
toolVars   == <<tool_call, settings, returned, htmlVars, parseVars>>
envVars    == <<analysis_module, toolVars, repoState, gitOps, tree, sandboxes>>
histVars   == <<created, warned, attempted, invoked, failedAt, outcome,
                noted, processing>>
vars == <<guiVars, threadVars, passVars, travVars, envVars, histVars,
          runVars, refVars>>

\* function_var.get().strip() (lines 897-899): no target function, or one.
NoFunction == "None"
FunctionChoices == {NoFunction, "f"}
\* Which of the two analysis modules the imports of lines 23-44 found
\* (run_complete_dataflow_analysis, analyze_cpp_file).
ImportChoices == {<<TRUE, FALSE>>, <<FALSE, TRUE>>}
\* language_var (line 306)
Languages == {"Python", "C++"}

NoDir == <<>>

\* No file was written by the step just taken.
NoFile == [written |-> "no", doc |-> {}]

\* The revision the loop of line 207 is at.
commit_hash == commits[i]

InitGui ==
    /\ repo_path \in Repos
    /\ analyzer = (IF IsGitRepo(repo_path) THEN repo_path ELSE "None")
    /\ files_listbox \in TargetChoices
    /\ is_analyzing = FALSE
    /\ analyze_button = "normal"
    /\ gui_results = EmptyMap
    /\ afterQ = <<>>
    /\ lastStart = "none"
    /\ report = "none"
    /\ active = 0
    /\ pc = "idle"
    /\ target_files = <<>>
    /\ commits = <<>>
    /\ i = 0
    /\ fidx = 0
    /\ temp_dir = NoDir
    /\ temp_files = <<>>
    /\ content = NoneVal
    /\ result = NoneVal
    /\ results = EmptyMap
    /\ err = "none"
    /\ trav = "none"
    /\ \E imp \in ImportChoices :
         /\ analysis_module = imp[1]
         /\ clang_module = imp[2]
    /\ repoState = RepoInitial
    /\ gitOps = {}
    /\ tree = {}
    /\ sandboxes = {}
    /\ created = {}
    /\ warned = {}
    /\ attempted = {}
    /\ invoked = {}
    /\ failedAt = {}
    /\ outcome = EmptyMap
    /\ noted = {}
    /\ processing = NoEvent
    /\ progress_msg = "none"
    /\ target_function = NoFunction
    /\ language = "Python"
    /\ results_obj = "main"
    /\ wrote_obj = "none"
    /\ display_arg = "none"
    /\ export_file = NoFile
    /\ gen_pc = "idle"
    /\ sorted_commits = <<>>
    /\ idx = 0
    /\ defined_functions = 0
    /\ func_k = 0
    /\ temp_dir_for_func = NoDir
    /\ func_dirs = {}
    /\ func_failed = {}
    /\ gen_path = {}
    /\ parse_pc = "none"
    /\ parse_i = 0
    /\ scan_i = 0

\* No helper is being called while the GUI runs.
NoCall == [fn |-> "none"]
NoReturn == [fn |-> "none"]

Init ==
    /\ InitGui
    /\ tool_call = NoCall
    /\ settings = EmptyMap
    /\ returned = NoReturn

(***************************************************************************)
(* The control context                                                     *)
(***************************************************************************)
\* Faulty variant: the flag is not consulted.
StartBusy_Never(flag) == FALSE

\* Line 883: the test that rejects a request while a run is active.
StartBusy(flag) == flag

\* Lines 503-528: _ensure_analyzer succeeds.
EnsureAnalyzerOk == analyzer # "None" \/ IsGitRepo(repo_path)

\* Faulty variant: the store of the previous run is kept.
NewRunStore_Keep(old) == old

\* Line 906: self.results = {} when a run is accepted.
NewRunStore(old) == EmptyMap

\* Faulty variant: the run is marked active before the file list is tested.
OnNoFiles_FlagSet(flag, button) ==
    [is_analyzing |-> TRUE, analyze_button |-> "disabled"]

\* Lines 891-894: with no file listed start_analysis shows an error and
\* returns; lines 904-905 have not been reached.
OnNoFiles(flag, button) == [is_analyzing |-> flag, analyze_button |-> button]

\* Faulty variant: the button is left as it was when a run is accepted.
AcceptedButton_Kept(button) == button

\* Line 905: self.analyze_button.config(state=tk.DISABLED).
AcceptedButton(button) == "disabled"

\* Lines 883-885: a request made while a run is active is refused.
StartRejectBusy ==
    /\ StartBusy(is_analyzing)
    /\ lastStart' = "busy"
    /\ UNCHANGED <<repo_path, analyzer, files_listbox, is_analyzing,
                   analyze_button, gui_results, afterQ, report>>
    /\ export_file' = NoFile
    /\ UNCHANGED <<threadVars, passVars, travVars, envVars, histVars>>
    /\ UNCHANGED <<runVars, refVars>>

\* Lines 887-889: _ensure_analyzer failed.
StartRejectNoAnalyzer ==
    /\ ~StartBusy(is_analyzing)
    /\ ~EnsureAnalyzerOk
    /\ lastStart' = "no_analyzer"
    /\ UNCHANGED <<repo_path, analyzer, files_listbox, is_analyzing,
                   analyze_button, gui_results, afterQ, report>>
    /\ export_file' = NoFile
    /\ UNCHANGED <<threadVars, passVars, travVars, envVars, histVars>>
    /\ UNCHANGED <<runVars, refVars>>

\* Lines 891-894: no file is listed.
StartRejectNoFiles ==
    /\ ~StartBusy(is_analyzing)
    /\ EnsureAnalyzerOk
    /\ files_listbox = <<>>
    /\ analyzer' = (IF analyzer = "None" THEN repo_path ELSE analyzer)
    /\ lastStart' = "no_files"
    /\ is_analyzing' =
         OnNoFiles(is_analyzing, analyze_button).is_analyzing
    /\ analyze_button' =
         OnNoFiles(is_analyzing, analyze_button).analyze_button
    /\ UNCHANGED <<repo_path, files_listbox, gui_results, afterQ, report>>
    /\ export_file' = NoFile
    /\ UNCHANGED <<threadVars, passVars, travVars, envVars, histVars>>
    /\ UNCHANGED <<runVars, refVars>>

\* Lines 896-911 and 1053: the request is accepted and the worker started.
StartAccept ==
    /\ ~StartBusy(is_analyzing)
    /\ EnsureAnalyzerOk
    /\ files_listbox # <<>>
    /\ Len(afterQ) <= MaxPending
    /\ analyzer' = (IF analyzer = "None" THEN repo_path ELSE analyzer)
    /\ lastStart' = "accepted"
    /\ is_analyzing' = TRUE
    /\ analyze_button' = AcceptedButton(analyze_button)
    /\ gui_results' = NewRunStore(gui_results)
    /\ results_obj' = "main"
    /\ \E fn \in FunctionChoices : target_function' = fn
    /\ report' = "none"
    /\ active' = active + 1
    /\ pc' = "w_begin"
    /\ target_files' = files_listbox
    /\ commits' = <<>>
    /\ i' = 0
    /\ results' = EmptyMap
    /\ trav' = "none"
    /\ fidx' = 0
    /\ temp_dir' = NoDir
    /\ temp_files' = <<>>
    /\ content' = NoneVal
    /\ result' = NoneVal
    /\ err' = "none"
    /\ gitOps' = {}
    /\ tree' = {}
    /\ sandboxes' = {}
    /\ created' = {}
    /\ warned' = {}
    /\ attempted' = {}
    /\ invoked' = {}
    /\ failedAt' = {}
    /\ outcome' = EmptyMap
    /\ noted' = {}
    /\ processing' = NoEvent
    /\ progress_msg' = "none"
    /\ wrote_obj' = "none"
    /\ display_arg' = "none"
    /\ export_file' = NoFile
    /\ UNCHANGED <<repo_path, files_listbox, afterQ,
                   analysis_module, toolVars, repoState>>
    /\ UNCHANGED <<language, clang_module>>

\* Lines 881-911 and 1053: start_analysis, called on the main thread.
StartAnalysis ==
    \/ StartRejectBusy
    \/ StartRejectNoAnalyzer
    \/ StartRejectNoFiles
    \/ StartAccept

\* Lines 530-541 (and load_commits, 849-872): browse_repo with a chosen path.
BrowseRepo ==
    \E path \in Repos :
        /\ repo_path' = path
        /\ IF IsGitRepo(path)
           THEN /\ analyzer' = path
                /\ gitOps' = gitOps \cup {EnumerateCmd}
                /\ repoState' = GitApply(EnumerateCmd, repoState)
           ELSE UNCHANGED <<analyzer, gitOps, repoState>>
        /\ export_file' = NoFile
        /\ UNCHANGED <<files_listbox, is_analyzing, analyze_button,
                       gui_results, afterQ, lastStart, report>>
        /\ UNCHANGED <<threadVars, passVars, travVars, histVars>>
        /\ UNCHANGED <<analysis_module, toolVars, tree, sandboxes>>
        /\ UNCHANGED <<runVars, results_obj, wrote_obj, display_arg>>

\* Lines 1094-1099: clear_results.
ClearResults ==
    /\ gui_results' = EmptyMap
    /\ results_obj' = "main"
    /\ export_file' = NoFile
    /\ UNCHANGED <<repo_path, analyzer, files_listbox, is_analyzing,
                   analyze_button, afterQ, lastStart, report>>
    /\ UNCHANGED <<threadVars, passVars, travVars, envVars, histVars>>
    /\ UNCHANGED <<runVars, wrote_obj, display_arg>>

\* Line 1115: json.dump writes a dict as a JSON object, one member per key.
JsonDump(store) == {<<k, store[k]>> : k \in DOMAIN store}

\* Faulty variant: an empty store is exported as well.
ExportGuard_Always(store) == TRUE

\* Lines 1103-1105: with nothing stored export_results warns and returns.
ExportGuard(store) == store # EmptyMap

\* Lines 1101-1119: export_results.  The user may cancel the dialog (line
\* 1112) and opening the file may raise (line 1118): nothing is written.
ExportResults ==
    /\ IF ExportGuard(gui_results)
       THEN \/ export_file' = [written |-> "yes", doc |-> JsonDump(gui_results)]
            \/ export_file' = NoFile
       ELSE export_file' = NoFile
    /\ UNCHANGED <<repo_path, analyzer, files_listbox, is_analyzing,
                   analyze_button, gui_results, afterQ, lastStart, report>>
    /\ UNCHANGED <<threadVars, passVars, travVars, envVars, histVars>>
    /\ UNCHANGED <<runVars, refVars>>

\* Tk's main loop runs the oldest callback queued with root.after.
TkRunCallback ==
    /\ afterQ # <<>>
    /\ IF Head(afterQ) = "enable"
       THEN analyze_button' = "normal"
       ELSE UNCHANGED analyze_button
    /\ afterQ' = Tail(afterQ)
    /\ export_file' = NoFile
    /\ UNCHANGED <<repo_path, analyzer, files_listbox, is_analyzing,
                   gui_results, lastStart, report>>
    /\ UNCHANGED <<threadVars, passVars, travVars, envVars, histVars>>
    /\ UNCHANGED <<runVars, refVars>>

(***************************************************************************)
(* The worker: analyze_thread (lines 913-1051)                             *)
(***************************************************************************)
\* f'file_{i}' of line 1012, i counted from 0.
FileKey(n) ==
    CASE n = 0 -> "file_0"
      [] n = 1 -> "file_1"
      [] n = 2 -> "file_2"
      [] OTHER -> "file_n"

\* Lines 927-1001: the first progress posts (a root.after that raises is
\* caught at 1045), the language, and the branch taken: with a target
\* function the current files are analyzed directly; otherwise the thread
\* counts the commits with its own `git log` and goes on to the C++ files
\* or to analyze_all_commits.
WBegin ==
    /\ pc = "w_begin"
    /\ \E lang \in Languages :
         /\ language' = lang
         /\ \/ /\ pc' = "w_except"
               /\ UNCHANGED <<gitOps, repoState, report, fidx>>
            \/ /\ target_function # NoFunction
               /\ pc' = "w_function"
               /\ UNCHANGED <<gitOps, repoState, report, fidx>>
            \/ /\ target_function = NoFunction
               /\ gitOps' = gitOps \cup {EnumerateCmd}
               /\ repoState' = GitApply(EnumerateCmd, repoState)
               /\ IF lang = "C++"
                  THEN IF clang_module
                       THEN /\ pc' = "w_cpp"
                            /\ fidx' = 1
                            /\ UNCHANGED report
                       ELSE /\ pc' = "w_finally"
                            /\ report' = "unavailable"
                            /\ UNCHANGED fidx
                  ELSE /\ pc' = "enumerate"
                       /\ UNCHANGED <<report, fidx>>
    /\ export_file' = NoFile
    /\ UNCHANGED <<repo_path, analyzer, files_listbox, is_analyzing,
                   analyze_button, gui_results, afterQ, lastStart>>
    /\ UNCHANGED <<active, travVars, histVars, refVars>>
    /\ UNCHANGED <<temp_dir, temp_files, content, result, err, progress_msg>>
    /\ UNCHANGED <<analysis_module, toolVars, tree, sandboxes>>
    /\ UNCHANGED <<target_function, clang_module>>

\* Whether the analysis module of a language was imported.
ModuleAvailable(lang) ==
    IF lang = "Python" THEN analysis_module ELSE clang_module

\* Lines 934-980: a target function is given.  The language's analyzer is
\* called once on the listed files as they are on disk (no revision is
\* enumerated or fetched); a truthy result is stored in self.results under
\* the key 'current' and a new dict {'current': result} is queued for
\* display_results.
WFunction ==
    /\ pc = "w_function"
    /\ IF ~ModuleAvailable(language)
       THEN /\ report' = "unavailable"
            /\ pc' = "w_finally"
            /\ UNCHANGED <<gui_results, wrote_obj, display_arg>>
       ELSE \/ /\ pc' = "w_except"
               /\ UNCHANGED <<gui_results, wrote_obj, display_arg, report>>
            \/ \E v \in AnalyzerReturns :
                 /\ pc' = "w_finally"
                 /\ IF Truthy(v)
                    THEN /\ gui_results' = MapPut(gui_results, "current", v)
                         /\ wrote_obj' = results_obj
                         /\ display_arg' = "fresh"
                         /\ report' = "function_complete"
                    ELSE /\ report' = "function_no_results"
                         /\ UNCHANGED <<gui_results, wrote_obj, display_arg>>
    /\ export_file' = NoFile
    /\ UNCHANGED <<repo_path, analyzer, files_listbox, is_analyzing,
                   analyze_button, afterQ, lastStart>>
    /\ UNCHANGED <<active, passVars, travVars, envVars, histVars, runVars>>
    /\ UNCHANGED results_obj

\* Lines 1003-1012: C++ without a target function: analyze_cpp_file is
\* called on each listed file as it is on disk; a truthy result is stored
\* in the thread's dict under 'file_<index>'.
WCppFile ==
    /\ pc = "w_cpp"
    /\ fidx <= Len(target_files)
    /\ \/ /\ pc' = "w_except"
          /\ UNCHANGED <<results, wrote_obj, fidx>>
       \/ \E v \in AnalyzerReturns :
            /\ fidx' = fidx + 1
            /\ UNCHANGED pc
            /\ IF Truthy(v)
               THEN /\ results' = MapPut(results, FileKey(fidx - 1), v)
                    /\ wrote_obj' = "worker"
               ELSE UNCHANGED <<results, wrote_obj>>
    /\ export_file' = NoFile
    /\ UNCHANGED <<guiKept, active, envVars, histVars, runVars>>
    /\ UNCHANGED <<temp_dir, temp_files, content, result, err, progress_msg>>
    /\ UNCHANGED <<target_files, commits, i, trav>>
    /\ UNCHANGED <<results_obj, display_arg>>

\* Lines 1014-1018: the thread's dict becomes self.results and is queued
\* for display_results.
WCppPublish ==
    /\ pc = "w_cpp"
    /\ fidx > Len(target_files)
    /\ gui_results' = results
    /\ results_obj' = "worker"
    /\ fidx' = 0
    /\ \/ /\ report' = "cpp_complete"
          /\ display_arg' = "worker"
          /\ pc' = "w_finally"
       \/ /\ pc' = "w_except"
          /\ UNCHANGED <<report, display_arg>>
    /\ export_file' = NoFile
    /\ UNCHANGED <<repo_path, analyzer, files_listbox, is_analyzing,
                   analyze_button, afterQ, lastStart>>
    /\ UNCHANGED <<active, travVars, envVars, histVars, runVars>>
    /\ UNCHANGED <<temp_dir, temp_files, content, result, err, progress_msg>>
    /\ UNCHANGED wrote_obj

\* The standard output of `git log --oneline --all`, as the lines between
\* its newline characters; a line is a sequence of lexemes, " " standing for
\* white space.  Output that ends with a newline ends with an empty line.
LogLine(k) == <<RevName[k], " ", "subject">>
LogOf(n) == [k \in 1..n |-> LogLine(k)]
NoLine == <<>>
BlankLine == <<" ">>

\* The outputs of a successful `git log`: n revision lines and the final
\* newline, the same with a blank line after the first revision, and for an
\* empty history no output at all, a lone newline, or blank lines.
LogOutputs ==
    { LogOf(n) \o <<NoLine>> : n \in 1..MaxRevs }
      \cup { <<LogLine(1), BlankLine>> \o SubSeq(LogOf(n), 2, n) \o <<NoLine>> :
                n \in 1..MaxRevs }
      \cup { <<NoLine>>, <<NoLine, NoLine>>, <<BlankLine, NoLine>>,
              <<BlankLine, BlankLine, NoLine>> }

\* line.split(): the tokens of a line.
LogTokens(line) == SelectSeq(line, LAMBDA x : x # " ")

\* Line 196: result.stdout.strip().split('\n').  strip() removes the blank
\* lines at both ends; splitting an empty string gives one empty line.
RECURSIVE DropBlankFront(_)
DropBlankFront(ls) ==
    IF ls # <<>> /\ LogTokens(Head(ls)) = <<>> THEN DropBlankFront(Tail(ls))
    ELSE ls

RECURSIVE DropBlankBack(_)
DropBlankBack(ls) ==
    IF ls # <<>> /\ LogTokens(ls[Len(ls)]) = <<>>
    THEN DropBlankBack(SubSeq(ls, 1, Len(ls) - 1))
    ELSE ls

StripSplit(stdout) ==
    LET kept == DropBlankBack(DropBlankFront(stdout))
    IN  IF kept = <<>> THEN <<NoLine>> ELSE kept

\* Faulty variant: blank lines are not filtered out.
KeepLogLine_All(line) == TRUE

\* Line 197: `if line.strip()`.
KeepLogLine(line) == LogTokens(line) # <<>>

\* Line 197: line.split()[0], the revision id of a line ("" stands for the
\* id of a line without a token, which the filter never lets through).
FirstToken(line) ==
    IF LogTokens(line) = <<>> THEN "" ELSE LogTokens(line)[1]

\* Lines 196-197: the revision list read from the output of `git log`.
CommitsFromLog(stdout) ==
    LET commit_lines == SelectSeq(StripSplit(stdout), KeepLogLine)
    IN  [k \in DOMAIN commit_lines |-> FirstToken(commit_lines[k])]

\* Faulty variant: the failure is swallowed and the loop runs on a default.
OnEnumerationError_Continues ==
    [pc |-> "loop", commits |-> CommitsOf(1), trav |-> "failed"]

\* Lines 198-200: what analyze_all_commits does when `git log` fails.
OnEnumerationError == [pc |-> "returned", commits |-> <<>>, trav |-> "failed"]

\* Lines 186-205: analyze_all_commits lists the revisions.
Enumerate ==
    /\ pc = "enumerate"
    /\ gitOps' = gitOps \cup {EnumerateCmd}
    /\ repoState' = GitApply(EnumerateCmd, repoState)
    /\ \/ \E stdout \in LogOutputs :
              /\ commits' = CommitsFromLog(stdout)
              /\ pc' = "loop"
              /\ trav' = "running"
       \/ /\ commits' = OnEnumerationError.commits
          /\ pc' = OnEnumerationError.pc
          /\ trav' = OnEnumerationError.trav
    /\ i' = 1
    /\ results' = EmptyMap
    /\ export_file' = NoFile
    /\ UNCHANGED <<guiKept, active, passVars, target_files, histVars>>
    /\ UNCHANGED <<analysis_module, toolVars, tree, sandboxes>>
    /\ UNCHANGED <<runVars, refVars>>

\* Line 223: the loop is over, analyze_all_commits returns results.
LoopDone ==
    /\ pc = "loop"
    /\ i > Len(commits)
    /\ pc' = "returned"
    /\ trav' = "done"
    /\ export_file' = NoFile
    /\ UNCHANGED <<guiKept, active, passVars, histVars, envVars>>
    /\ UNCHANGED <<target_files, commits, i, results>>
    /\ UNCHANGED <<runVars, refVars>>

\* Lines 207-209: the next revision; "Processing commit i/total" is passed
\* to the caller's callback, outside every try block.
LoopNext ==
    /\ pc = "loop"
    /\ i <= Len(commits)
    /\ processing' =
         EnhancedProgress(ProcessingMsg(i, Len(commits), commit_hash),
                          processing)
    /\ \/ /\ pc' = "enter"
          /\ UNCHANGED trav
       \/ /\ pc' = "raised"
          /\ trav' = "aborted"
    /\ export_file' = NoFile
    /\ UNCHANGED <<guiKept, active, passVars, envVars>>
    /\ UNCHANGED <<created, warned, attempted, invoked, failedAt, outcome,
                   noted>>
    /\ UNCHANGED <<target_files, commits, i, results>>
    /\ UNCHANGED <<runVars, refVars>>

\* The target files that lie in the repository; which of them exist is a
\* fact of the revision.
TreeChoices == SUBSET {f \in {target_files[k] : k \in DOMAIN target_files} :
                          IsUnder(f, RepoRoot)}

\* Lines 104-108: analyze_commit_safely is entered; "Analyzing commit" is
\* passed to the callback before the try block.
Enter ==
    /\ pc = "enter"
    /\ attempted' = attempted \cup {commit_hash}
    /\ \E t \in TreeChoices : tree' = t
    /\ temp_dir' = NoDir
    /\ temp_files' = <<>>
    /\ content' = NoneVal
    /\ result' = NoneVal
    /\ err' = "none"
    /\ fidx' = 0
    /\ progress_msg' = "analyzing"
    /\ \/ /\ pc' = "mkdtemp"
          /\ UNCHANGED trav
       \/ /\ pc' = "raised"
          /\ trav' = "aborted"
    /\ export_file' = NoFile
    /\ UNCHANGED <<guiKept, active>>
    /\ UNCHANGED <<target_files, commits, i, results>>
    /\ UNCHANGED <<analysis_module, toolVars, repoState, gitOps, sandboxes>>
    /\ UNCHANGED <<created, warned, invoked, failedAt, outcome, noted,
                   processing>>
    /\ UNCHANGED <<runVars, refVars>>

\* Lines 110-111: the sandbox directory is created (or mkdtemp raises and
\* the handler of line 166 returns None).
MkDTemp ==
    /\ pc = "mkdtemp"
    /\ \/ /\ temp_dir' = TempDirOf(commit_hash)
          /\ sandboxes' = sandboxes \cup {TempDirOf(commit_hash)}
          /\ created' = created \cup {TempDirOf(commit_hash)}
          /\ fidx' = 1
          /\ pc' = "fetch"
          /\ UNCHANGED err
       \/ /\ err' = "OSError"
          /\ pc' = "cleanup"
          /\ UNCHANGED <<temp_dir, sandboxes, created, fidx>>
    /\ export_file' = NoFile
    /\ UNCHANGED <<guiKept, active, travVars>>
    /\ UNCHANGED <<temp_files, content, result, progress_msg>>
    /\ UNCHANGED <<analysis_module, toolVars, repoState, gitOps, tree>>
    /\ UNCHANGED <<warned, attempted, invoked, failedAt, outcome, noted,
                   processing>>
    /\ UNCHANGED <<runVars, refVars>>

\* Line 113: every target file has been handled.
FetchDone ==
    /\ pc = "fetch"
    /\ fidx > Len(target_files)
    /\ pc' = "check_files"
    /\ export_file' = NoFile
    /\ UNCHANGED <<guiKept, active, passVars, travVars, envVars,
                   histVars>>
    /\ UNCHANGED <<runVars, refVars>>

\* Lines 113-120: the next target file is skipped as lying outside the
\* repository, or looked up with `git show`.
Fetch ==
    /\ pc = "fetch"
    /\ fidx <= Len(target_files)
    /\ IF SkippedAsOutside(target_files[fidx], RepoRoot)
       THEN /\ fidx' = fidx + 1
            /\ UNCHANGED <<pc, content, err, gitOps, repoState>>
       ELSE /\ gitOps' = gitOps \cup {FetchCmd}
            /\ repoState' = GitApply(FetchCmd, repoState)
            /\ \E decodable \in BOOLEAN :
                 LET r == GetFileContentAtCommit(target_files[fidx] \in tree,
                                                 decodable)
                 IN  IF r.kind = "raise"
                     THEN /\ err' = r.exc
                          /\ pc' = "cleanup"
                          /\ UNCHANGED <<content, fidx>>
                     ELSE /\ content' = r
                          /\ pc' = "write"
                          /\ UNCHANGED <<err, fidx>>
    /\ export_file' = NoFile
    /\ UNCHANGED <<guiKept, active, travVars, histVars>>
    /\ UNCHANGED <<temp_dir, temp_files, result, progress_msg>>
    /\ UNCHANGED <<analysis_module, toolVars, tree, sandboxes>>
    /\ UNCHANGED <<runVars, refVars>>

\* Line 123: where a fetched file is written.
WriteTarget(dir, path) == JoinPath(dir, RelPath(path, RepoRoot))

\* Lines 121-126: content that is not None is written under the sandbox
\* (mkdir or write_text may raise; line 166 then returns None).
Write ==
    /\ pc = "write"
    /\ IF content.kind = "none"
       THEN /\ fidx' = fidx + 1
            /\ pc' = "fetch"
            /\ UNCHANGED <<temp_files, err, repoState>>
       ELSE \/ /\ repoState' =
                    WriteApply(WriteTarget(temp_dir, target_files[fidx]),
                               repoState)
               /\ temp_files' =
                    Append(temp_files,
                           WriteTarget(temp_dir, target_files[fidx]))
               /\ fidx' = fidx + 1
               /\ pc' = "fetch"
               /\ UNCHANGED err
            \/ /\ err' = "OSError"
               /\ pc' = "cleanup"
               /\ UNCHANGED <<temp_files, fidx, repoState>>
    /\ export_file' = NoFile
    /\ UNCHANGED <<guiKept, active, travVars, histVars>>
    /\ UNCHANGED <<temp_dir, content, result, progress_msg>>
    /\ UNCHANGED <<analysis_module, toolVars, gitOps, tree, sandboxes>>
    /\ UNCHANGED <<runVars, refVars>>

\* Faulty variant: an empty list of materialized files is not noticed.
NoTempFiles_Never(files) == FALSE

\* Line 127: `if not temp_files`.
NoTempFiles(files) == files = <<>>

\* Lines 128-131: no file was materialized: "No files found" is passed to
\* the callback (a raise is caught at 166) and None is returned.
CheckFiles ==
    /\ pc = "check_files"
    /\ IF NoTempFiles(temp_files)
       THEN /\ pc' = "cleanup"
            /\ progress_msg' = "no_files"
            /\ \E cbOk \in BOOLEAN :
                 err' = (IF cbOk THEN err ELSE "callback")
       ELSE /\ pc' = "analyze"
            /\ UNCHANGED <<err, progress_msg>>
    /\ export_file' = NoFile
    /\ UNCHANGED <<guiKept, active, travVars, envVars, histVars>>
    /\ UNCHANGED <<fidx, temp_dir, temp_files, content, result>>
    /\ UNCHANGED <<runVars, refVars>>

\* Lines 134-164: the analyzer is called on temp_files.  It raises or
\* returns; an invalid return and a raise are reported to the callback and
\* give None (a raise of the callback is caught at 155 or 166).
Analyze ==
    /\ pc = "analyze"
    /\ pc' = "cleanup"
    /\ IF ~analysis_module
       THEN /\ result' = NoneVal
            /\ progress_msg' = "unavailable"
            /\ \E cbOk \in BOOLEAN :
                 err' = (IF cbOk THEN err ELSE "callback")
            /\ UNCHANGED <<invoked, failedAt>>
       ELSE /\ invoked' = invoked \cup {commit_hash}
            /\ \/ /\ result' = NoneVal
                  /\ failedAt' = failedAt \cup {commit_hash}
                  /\ progress_msg' = "error"
                  /\ \E cbOk \in BOOLEAN :
                       err' = (IF cbOk THEN "analyzer" ELSE "callback")
               \/ \E v \in AnalyzerReturns :
                    /\ result' = ValidateResult(v)
                    /\ IF ValidateResult(v) = NoneVal
                       THEN /\ failedAt' = failedAt \cup {commit_hash}
                            /\ progress_msg' = "invalid"
                            /\ \E cbOk \in BOOLEAN :
                                 err' = (IF cbOk THEN err ELSE "callback")
                       ELSE UNCHANGED <<failedAt, err, progress_msg>>
    /\ export_file' = NoFile
    /\ UNCHANGED <<guiKept, active, travVars, envVars>>
    /\ UNCHANGED <<fidx, temp_dir, temp_files, content>>
    /\ UNCHANGED <<created, warned, attempted, outcome, noted, processing>>
    /\ UNCHANGED <<runVars, refVars>>

\* Faulty variant: the sandbox is removed on the normal path only.
NeedsCleanup_OnSuccessOnly(dir, onDisk, e) ==
    dir # NoDir /\ dir \in onDisk /\ e = "none"

\* Line 172: the test that decides whether the sandbox is removed.
NeedsCleanup(dir, onDisk, e) == dir # NoDir /\ dir \in onDisk

\* Faulty variant: the failed removal is raised to analyze_all_commits.
OnRemovalError_Raises(res) == [pc |-> "raised", returns |-> NoneVal]

\* Lines 175-176: a failed removal is printed as a warning; the function
\* goes on to return the value it was returning.
OnRemovalError(res) == [pc |-> "aggregate", returns |-> res]

\* Lines 170-176: the finally block; rmtree removes the sandbox, or fails
\* and a warning is printed.  analyze_commit_safely then returns `result`.
Cleanup ==
    /\ pc = "cleanup"
    /\ IF NeedsCleanup(temp_dir, sandboxes, err)
       THEN \/ /\ sandboxes' = sandboxes \ {temp_dir}
               /\ outcome' = MapPut(outcome, commit_hash, result)
               /\ pc' = "aggregate"
               /\ UNCHANGED warned
            \/ /\ warned' = warned \cup {temp_dir}
               /\ outcome' = MapPut(outcome, commit_hash,
                                    OnRemovalError(result).returns)
               /\ pc' = OnRemovalError(result).pc
               /\ UNCHANGED sandboxes
       ELSE /\ outcome' = MapPut(outcome, commit_hash, result)
            /\ pc' = "aggregate"
            /\ UNCHANGED <<sandboxes, warned>>
    \* the locals of analyze_commit_safely end with the call
    /\ fidx' = 0
    /\ temp_dir' = NoDir
    /\ temp_files' = <<>>
    /\ content' = NoneVal
    /\ err' = "none"
    /\ progress_msg' = "none"
    /\ tree' = {}
    /\ export_file' = NoFile
    /\ UNCHANGED <<guiKept, active, result, travVars>>
    /\ UNCHANGED <<analysis_module, toolVars, repoState, gitOps>>
    /\ UNCHANGED <<created, attempted, invoked, failedAt, noted, processing>>
    /\ UNCHANGED <<runVars, refVars>>

\* Faulty variant: a None result is reported as well.
EmitsNoDataNote_Always(res) == ~ShouldStore(res)

\* Lines 213-220: the aggregator reports "has no dataflow data" for a dict
\* whose 'variables' and 'metadata' are both empty, and for nothing else.
EmitsNoDataNote(res) == res.kind = "dict" /\ ~ShouldStore(res)

\* Lines 211-221: the result is stored when it is a dict with data; an
\* empty one is reported to the callback, outside every try block.
Aggregate ==
    /\ pc = "aggregate"
    /\ i' = i + 1
    /\ IF ShouldStore(result)
       THEN /\ results' = MapPut(results, commit_hash, result)
            /\ wrote_obj' = "worker"
            /\ pc' = "loop"
            /\ UNCHANGED <<trav, noted>>
       ELSE /\ UNCHANGED <<results, wrote_obj>>
            /\ IF EmitsNoDataNote(result)
               THEN /\ noted' = noted \cup {commit_hash}
                    /\ \/ /\ pc' = "loop"
                          /\ UNCHANGED trav
                       \/ /\ pc' = "raised"
                          /\ trav' = "aborted"
               ELSE /\ pc' = "loop"
                    /\ UNCHANGED <<trav, noted>>
    \* `result` is dead until line 211 assigns it again
    /\ result' = NoneVal
    /\ export_file' = NoFile
    /\ UNCHANGED <<guiKept, active, envVars, runVars>>
    /\ UNCHANGED <<created, warned, attempted, invoked, failedAt, outcome,
                   processing>>
    /\ UNCHANGED <<fidx, temp_dir, temp_files, content, err, progress_msg>>
    /\ UNCHANGED <<target_files, commits>>
    /\ UNCHANGED <<results_obj, display_arg>>

\* Lines 1040-1044: analyze_all_commits returned; the thread publishes the
\* map and posts "Analysis complete! Analyzed N commit(s)".
WPublish ==
    /\ pc = "returned"
    /\ gui_results' = results
    /\ results_obj' = "worker"
    /\ \/ /\ report' = "complete"
          /\ display_arg' = "worker"
          /\ pc' = "w_finally"
       \/ /\ pc' = "w_except"
          /\ UNCHANGED <<report, display_arg>>
    /\ export_file' = NoFile
    /\ UNCHANGED <<repo_path, analyzer, files_listbox, is_analyzing,
                   analyze_button, afterQ, lastStart>>
    /\ UNCHANGED <<active, passVars, travVars, envVars, histVars, runVars>>
    /\ UNCHANGED wrote_obj

\* Lines 1045-1047: an exception reached analyze_thread; "Error during
\* analysis" is posted (unless root.after raises again).
WExcept ==
    /\ pc \in {"raised", "w_except"}
    /\ \/ report' = "error"
       \/ UNCHANGED report
    /\ pc' = "w_finally"
    /\ export_file' = NoFile
    /\ UNCHANGED <<repo_path, analyzer, files_listbox, is_analyzing,
                   analyze_button, gui_results, afterQ, lastStart>>
    /\ UNCHANGED <<active, passVars, travVars, envVars, histVars>>
    /\ UNCHANGED <<runVars, refVars>>

\* Faulty variant: the finally block leaves the flag as the run set it.
AfterRunFlag_Kept(flag) == flag

\* Line 1049: self.is_analyzing = False.
AfterRunFlag(flag) == FALSE

\* Lines 1048-1051: the finally block clears the flag and queues the
\* callback that re-enables the Analyze button (or root.after raises and the
\* thread ends without queuing it).
WFinally ==
    /\ pc = "w_finally"
    /\ is_analyzing' = AfterRunFlag(is_analyzing)
    /\ active' = active - 1
    /\ \/ afterQ' = Append(afterQ, "enable")
       \/ UNCHANGED afterQ
    /\ pc' = "idle"
    \* the closure's target_function and the thread's language end with it
    /\ target_function' = NoFunction
    /\ language' = "Python"
    /\ export_file' = NoFile
    /\ UNCHANGED <<repo_path, analyzer, files_listbox, analyze_button,
                   gui_results, lastStart, report>>
    /\ UNCHANGED <<passVars, travVars, envVars, histVars, refVars>>
    /\ UNCHANGED clang_module

Next ==
    \/ StartAnalysis
    \/ BrowseRepo
    \/ ClearResults
    \/ ExportResults
    \/ TkRunCallback
    \/ WBegin
    \/ WFunction
    \/ WCppFile
    \/ WCppPublish
    \/ Enumerate
    \/ LoopDone
    \/ LoopNext
    \/ Enter
    \/ MkDTemp
    \/ FetchDone
    \/ Fetch
    \/ Write
    \/ CheckFiles
    \/ Analyze
    \/ Cleanup
    \/ Aggregate
    \/ WPublish
    \/ WExcept
    \/ WFinally

Spec == Init /\ [][Next]_vars

\* Lines 913-1051: the steps of the worker thread started at line 1053.
analyze_thread ==
    \/ WBegin \/ WFunction \/ WCppFile \/ WCppPublish
    \/ Enumerate \/ LoopDone \/ LoopNext \/ Enter \/ MkDTemp
    \/ FetchDone \/ Fetch \/ Write \/ CheckFiles \/ Analyze \/ Cleanup
    \/ Aggregate \/ WPublish \/ WExcept \/ WFinally

\* Line 411: the Analyze button is the only caller of start_analysis, and a
\* disabled ttk button does not run its command.
PressAnalyze ==
    /\ analyze_button = "normal"
    /\ IF StartBusy(is_analyzing) THEN StartRejectBusy
       ELSE StartRejectNoAnalyzer \/ StartRejectNoFiles \/ StartAccept

NextButton ==
    \/ PressAnalyze
    \/ BrowseRepo
    \/ ClearResults
    \/ ExportResults
    \/ TkRunCallback
    \/ analyze_thread

SpecButton == Init /\ [][NextButton]_vars

\* The operating system keeps scheduling the worker thread while it has a
\* step to take (threading.Thread(...).start(), line 1053).
SpecFair == Spec /\ WF_vars(analyze_thread)

(***************************************************************************)
(* find_git_repo_root (lines 226-240), called by main (line 2118)          *)
(***************************************************************************)
\* Path.parent: the parent of the file system root is the root itself.
PathParent(path) ==
    IF path = <<>> THEN <<>> ELSE SubSeq(path, 1, Len(path) - 1)

\* The working directory of the process.
WorkDir == <<cA>>

\* Line 228: Path(file_path).resolve() makes a relative path absolute from
\* the working directory; the root is the empty sequence of components.
ResolveArg(file_path) ==
    IF file_path.absolute THEN file_path.parts
    ELSE WorkDir \o file_path.parts

\* Lines 235-240: the walk towards the root.  `gits` are the directories
\* that hold a `.git` entry.
RECURSIVE WalkUp(_, _)
WalkUp(path, gits) ==
    IF path = PathParent(path) THEN NoneVal
    ELSE IF path \in gits THEN [kind |-> "path", path |-> path]
    ELSE WalkUp(PathParent(path), gits)

\* Lines 226-240: find_git_repo_root.
FindGitRepoRootOf(file_path, is_file, gits) ==
    LET path == ResolveArg(file_path)
    IN  WalkUp(IF is_file THEN PathParent(path) ELSE path, gits)

\* The directories of the bounded file system, and those that may hold a
\* `.git` entry.
RECURSIVE PathsUpTo(_)
PathsUpTo(n) ==
    IF n = 0 THEN {<<>>}
    ELSE LET shorter == PathsUpTo(n - 1)
         IN  shorter \cup {Append(p, c) : p \in shorter, c \in {cA, cB}}

GitCandidates == {<<>>, <<cA>>, <<cA, cB>>}

IsPrefix(p, q) == Len(p) <= Len(q) /\ SubSeq(q, 1, Len(p)) = p

\* The calls main can make (line 2118, args.files[0]): a path, whether
\* it names a regular file, and where the `.git` entries are.  A regular
\* file is not the root and not a directory that holds anything.
FindCalls ==
    { [fn |-> "find_git_repo_root", file_path |-> fp, is_file |-> f,
       gits |-> g] :
        fp \in [absolute : BOOLEAN, parts : PathsUpTo(MaxDepth)],
        f \in BOOLEAN, g \in SUBSET GitCandidates }

ValidFindCall(c) ==
    c.is_file =>
        /\ ResolveArg(c.file_path) # <<>>
        /\ \A d \in c.gits : ~IsPrefix(ResolveArg(c.file_path), d)

\* main, lines 2116-2123: the repository is detected from the first file.
FindGitRepoRoot ==
    /\ tool_call.fn = "find_git_repo_root"
    /\ returned = NoReturn
    /\ returned' = [fn |-> "find_git_repo_root",
                    value |-> FindGitRepoRootOf(tool_call.file_path,
                                                tool_call.is_file,
                                                tool_call.gits)]
    /\ UNCHANGED <<tool_call, settings>>
    /\ UNCHANGED <<guiVars, threadVars, passVars, travVars, histVars>>
    /\ UNCHANGED <<runVars, refVars, htmlVars, parseVars>>
    /\ UNCHANGED <<analysis_module, repoState, gitOps, tree, sandboxes>>

(***************************************************************************)
(* cmake_parser.py.  A line of CMakeLists.txt is a sequence of lexemes     *)
(* (words, brackets, blanks); a path is a sequence of lexemes as well.     *)
(***************************************************************************)
\* str(self.source_dir), line 23
SourceDir == "/proj"

\* Lines 156-158: the variable references _resolve_path replaces.
CMakeDirVars ==
    {"${CMAKE_SOURCE_DIR}", "${CMAKE_CURRENT_SOURCE_DIR}",
     "${CMAKE_CURRENT_LIST_DIR}"}

\* Line 161, os.path.isabs: the lexemes that begin with the separator.
IsAbs(path_str) == path_str # <<>> /\ path_str[1] \in {"/proj", "/usr"}

\* Lines 153-164: _resolve_path.
ResolvePath(path_str) ==
    LET replaced == [k \in DOMAIN path_str |->
                       IF path_str[k] \in CMakeDirVars THEN SourceDir
                       ELSE path_str[k]]
    IN  IF IsAbs(replaced) THEN replaced
        ELSE <<SourceDir, "/">> \o replaced

\* Path.exists(): the files and directories of the bounded file system.
OnDisk ==
    { <<"/proj", "/", "a.cpp">>, <<"/proj", "/", "b.h">>,
      <<"/proj", "/", "inc">> }

\* str.strip(): leading and trailing blanks removed.
RECURSIVE LStrip(_)
LStrip(line) ==
    IF line # <<>> /\ Head(line) = " " THEN LStrip(Tail(line)) ELSE line

RECURSIVE RStrip(_)
RStrip(line) ==
    IF line # <<>> /\ line[Len(line)] = " "
    THEN RStrip(SubSeq(line, 1, Len(line) - 1))
    ELSE line

StripLine(line) == RStrip(LStrip(line))

\* str.split(): the runs of lexemes between blanks.
RECURSIVE RunLen(_)
RunLen(line) ==
    IF line = <<>> \/ Head(line) = " " THEN 0 ELSE 1 + RunLen(Tail(line))

RECURSIVE Words(_)
Words(line) ==
    IF line = <<>> THEN <<>>
    ELSE IF Head(line) = " " THEN Words(Tail(line))
    ELSE <<SubSeq(line, 1, RunLen(line))>>
           \o Words(SubSeq(line, RunLen(line) + 1, Len(line)))

\* `name in line`: a lexeme of the line holds the name.
ContainsAny(line, names) == \E k \in DOMAIN line : line[k] \in names

\* \s* of a regular expression: the first position from j that is not blank.
RECURSIVE SkipBlanks(_, _)
SkipBlanks(line, j) ==
    IF j <= Len(line) /\ line[j] = " " THEN SkipBlanks(line, j + 1) ELSE j

\* The first position from j that holds lexeme x, 0 when there is none.
RECURSIVE FirstAt(_, _, _)
FirstAt(line, j, x) ==
    IF j > Len(line) THEN 0
    ELSE IF line[j] = x THEN j
    ELSE FirstAt(line, j + 1, x)

\* name\s*\((.*?)\) matched at lexeme k: <<group 1>>, or <<>> for no match.
GroupAt(line, k) ==
    LET j == SkipBlanks(line, k + 1)
    IN  IF j <= Len(line) /\ line[j] = "("
        THEN LET m == FirstAt(line, j + 1, ")")
             IN  IF m = 0 THEN <<>> ELSE <<SubSeq(line, j + 1, m - 1)>>
        ELSE <<>>

\* re.search(r'name\s*\((.*?)\)', line): the leftmost match.
RegexGroup(line, names) ==
    LET ks == {k \in DOMAIN line : line[k] \in names /\ GroupAt(line, k) # <<>>}
    IN  IF ks = {} THEN <<>>
        ELSE GroupAt(line, CHOOSE k \in ks : \A h \in ks : k <= h)

\* Lines 66 and 70: re.search(r'set\s*\(\s*SOURCES', line).
SetCommand(line, word) ==
    \E k \in DOMAIN line :
        /\ line[k] = "set"
        /\ LET j == SkipBlanks(line, k + 1)
           IN  /\ j <= Len(line)
               /\ line[j] = "("
               /\ SkipBlanks(line, j + 1) <= Len(line)
               /\ line[SkipBlanks(line, j + 1)] = word

\* Line 54: 'include_directories' in line.lower() holds of a
\* target_include_directories line as well.
IncludeNames == {"include_directories", "target_include_directories"}

\* Line 62: 'CMAKE_CXX_STANDARD' in line.
StandardNames == {"CMAKE_CXX_STANDARD", "CMAKE_CXX_STANDARD_REQUIRED"}

\* \d+ : the lexemes made of digits.
DigitLexemes == {"11", "14", "20"}

\* Lines 34-42: the settings _parse starts from (the link_* entries, which
\* nothing fills or reads, are left out).
DefaultStandard == "17"

FreshSettings ==
    [include_dirs |-> <<>>, definitions |-> <<>>,
     cxx_standard |-> DefaultStandard,
     source_files |-> <<>>, header_files |-> <<>>]

\* The paths among `words` that exist, resolved, in order (lines 89-92).
RECURSIVE ExistingPaths(_)
ExistingPaths(words) ==
    IF words = <<>> THEN <<>>
    ELSE (IF ResolvePath(Head(words)) \in OnDisk
          THEN <<ResolvePath(Head(words))>> ELSE <<>>)
           \o ExistingPaths(Tail(words))

\* Lines 83-92: _parse_include_directories.
ParseIncludeDirectories(line, st) ==
    LET match == RegexGroup(line, IncludeNames)
    IN  IF match = <<>> THEN st
        ELSE [st EXCEPT !.include_dirs = @ \o ExistingPaths(Words(match[1]))]

\* Lines 100-105: the names of the -D arguments among `words`; the name ends
\* at the first "=".
RECURSIVE DefinitionNames(_)
DefinitionNames(words) ==
    IF words = <<>> THEN <<>>
    ELSE (IF Head(Head(words)) = "-D"
          THEN <<UpTo(Tail(Head(words)), "=")>> ELSE <<>>)
           \o DefinitionNames(Tail(words))

\* Lines 94-105: _parse_definitions.
ParseDefinitions(line, st) ==
    LET match == RegexGroup(line, {"add_definitions"})
    IN  IF match = <<>> THEN st
        ELSE [st EXCEPT !.definitions = @ \o DefinitionNames(Words(match[1]))]

\* re.search(r'CMAKE_CXX_STANDARD\s+(\d+)', line): the positions that match.
StandardMatches(line) ==
    {k \in DOMAIN line :
        /\ line[k] = "CMAKE_CXX_STANDARD"
        /\ k + 1 <= Len(line)
        /\ line[k + 1] = " "
        /\ SkipBlanks(line, k + 1) <= Len(line)
        /\ line[SkipBlanks(line, k + 1)] \in DigitLexemes}

\* Faulty variant: a standard that was already set is kept.
ParseCxxStandard_First(line, st) ==
    IF StandardMatches(line) = {} \/ st.cxx_standard # DefaultStandard THEN st
    ELSE LET k == CHOOSE k \in StandardMatches(line) :
                      \A h \in StandardMatches(line) : k <= h
         IN  [st EXCEPT !.cxx_standard = line[SkipBlanks(line, k + 1)]]

\* Lines 107-111: _parse_cxx_standard.
ParseCxxStandard(line, st) ==
    IF StandardMatches(line) = {} THEN st
    ELSE LET k == CHOOSE k \in StandardMatches(line) :
                      \A h \in StandardMatches(line) : k <= h
         IN  [st EXCEPT !.cxx_standard = line[SkipBlanks(line, k + 1)]]

\* Lines 115-124: the loop of _parse_file_list from line n; every line up
\* to one that begins with ")" is taken whole as one path.
RECURSIVE FileListFrom(_, _)
FileListFrom(all_lines, n) ==
    IF n > Len(all_lines) THEN <<>>
    ELSE LET file_line == StripLine(all_lines[n])
         IN  IF file_line # <<>> /\ file_line[1] = ")" THEN <<>>
             ELSE (IF file_line # <<>> /\ file_line[1] # "#"
                      /\ ResolvePath(file_line) \in OnDisk
                   THEN <<ResolvePath(file_line)>> ELSE <<>>)
                    \o FileListFrom(all_lines, n + 1)

\* Lines 113-124: _parse_file_list; the scan starts on the line after
\* start_line.
ParseFileList(start_line, all_lines, key, st) ==
    [st EXCEPT ![key] = @ \o FileListFrom(all_lines, start_line + 1)]

\* Faulty variant: the command is not parsed.
ParseTargetCompileDefinitions_Ignored(line, st) == st

\* Lines 139-151: _parse_target_compile_definitions.
ParseTargetCompileDefinitions(line, st) ==
    LET match == RegexGroup(line, {"target_compile_definitions"})
    IN  IF match = <<>> \/ match[1] = <<>> THEN st
        ELSE [st EXCEPT !.definitions = @ \o DefinitionNames(Words(line))]

\* Lines 46-79: what _parse does with line n.  The test of line 74 is never
\* reached with a true condition, because line 54 holds of the same lines.
ParseLine(n, lines, st) ==
    LET line == StripLine(lines[n])
    IN  IF line = <<>> \/ line[1] = "#" THEN st
        ELSE IF ContainsAny(line, IncludeNames)
        THEN ParseIncludeDirectories(line, st)
        ELSE IF ContainsAny(line, {"add_definitions"})
        THEN ParseDefinitions(line, st)
        ELSE IF ContainsAny(line, StandardNames)
        THEN ParseCxxStandard(line, st)
        ELSE IF SetCommand(line, "SOURCES")
        THEN ParseFileList(n, lines, "source_files", st)
        ELSE IF SetCommand(line, "HEADERS")
        THEN ParseFileList(n, lines, "header_files", st)
        ELSE IF ContainsAny(line, {"target_compile_definitions"})
        THEN ParseTargetCompileDefinitions(line, st)
        ELSE st

\* Lines 44-81: the loop of _parse, one line after the other.
RECURSIVE ParseFrom(_, _, _)
ParseFrom(n, lines, st) ==
    IF n > Len(lines) THEN st
    ELSE ParseFrom(n + 1, lines, ParseLine(n, lines, st))

\* Lines 29-81: _parse.
Parse(lines) == ParseFrom(1, lines, FreshSettings)

\* dict.get(key, default)
SettingsGet(st, key, default) ==
    IF key \in DOMAIN st THEN st[key] ELSE default

\* source_file.parent: the path without its last separator and name.
LexParent(path) ==
    IF Len(path) >= 3 THEN SubSeq(path, 1, Len(path) - 2) ELSE path

\* One compiler flag: f'-I{...}', f'-D{...}', f'-std=c++{...}'.
Flag(opt, arg) == [opt |-> opt, arg |-> arg]

FlagsOf(opt, args) == [k \in DOMAIN args |-> Flag(opt, args[k])]

\* Lines 166-201: get_compile_args.  `standard_include_paths` is what
\* _find_standard_include_paths (lines 203-247) found; its own failures are
\* swallowed by the except of line 231.
GetCompileArgsOf(st, source_file, standard_include_paths) ==
    <<Flag("-std=c++", <<SettingsGet(st, "cxx_standard", DefaultStandard)>>)>>
      \o FlagsOf("-I", standard_include_paths)
      \o FlagsOf("-I", SettingsGet(st, "include_dirs", <<>>))
      \o <<Flag("-I", LexParent(source_file))>>
      \o <<Flag("-I", <<SourceDir>>)>>
      \o FlagsOf("-D", SettingsGet(st, "definitions", <<>>))

\* The lines a descriptor is made of.
LineChoices ==
    { <<>>,
      <<"#", " ", "c">>,
      <<"set", "(", "SOURCES">>,
      <<"set", "(", "SOURCES", " ", "a.cpp", ")">>,
      <<"set", "(", "HEADERS">>,
      <<" ", "a.cpp">>,
      <<" ", "b.h">>,
      <<" ", "missing.cpp">>,
      <<")">>,
      <<"set", "(", "CMAKE_CXX_STANDARD", " ", "20", ")">>,
      <<"set", "(", "CMAKE_CXX_STANDARD", " ", "14", ")">>,
      <<"set", "(", "CMAKE_CXX_STANDARD_REQUIRED", " ", "ON", ")">>,
      <<"include_directories", "(", "${CMAKE_SOURCE_DIR}", "/", "inc", " ",
        "noinc", ")">>,
      <<"target_include_directories", "(", "t", " ", "PRIVATE", " ", "inc",
        ")">>,
      <<"add_definitions", "(", "-D", "FOO", " ", "-D", "BAR", "=", "1", " ",
        "-Wall", ")">>,
      <<"target_compile_definitions", "(", "t", " ", "PRIVATE", " ", "-D",
        "BAZ", "=", "2", ")">>,
      <<"target_compile_definitions", "(", "t", " ", "PRIVATE">>,
      <<" ", "-D", "QUX", "=", "1">> }

RECURSIVE Descriptors(_)
Descriptors(n) ==
    IF n = 0 THEN {<<>>}
    ELSE LET shorter == Descriptors(n - 1)
         IN  shorter \cup {Append(d, l) : d \in shorter, l \in LineChoices}

\* The CMakeParser objects that can be made: the descriptor file exists or
\* not (line 26), and holds some lines.
CMakeCalls ==
    { [fn |-> "CMakeParser", exists |-> TRUE, lines |-> d] :
        d \in Descriptors(MaxLines) }
      \cup { [fn |-> "CMakeParser", exists |-> FALSE, lines |-> <<>>] }

\* The source files get_compile_args is asked about, and what the look for
\* the compiler's own include paths can find.
SourceFileChoices ==
    { <<"/proj", "/", "a.cpp">>, <<"/proj", "/", "src", "/", "m.cpp">> }

StandardPathChoices == { <<>>, << <<"/usr", "/", "include">> >> }

\* Lines 15-27: CMakeParser.__init__.
CMakeParserInit ==
    /\ tool_call.fn = "CMakeParser"
    /\ returned = NoReturn
    /\ settings' = (IF tool_call.exists THEN Parse(tool_call.lines)
                    ELSE EmptyMap)
    /\ returned' = [fn |-> "CMakeParser"]
    /\ UNCHANGED tool_call
    /\ UNCHANGED <<guiVars, threadVars, passVars, travVars, histVars>>
    /\ UNCHANGED <<runVars, refVars, htmlVars, parseVars>>
    /\ UNCHANGED <<analysis_module, repoState, gitOps, tree, sandboxes>>

\* Lines 166-201: get_compile_args on the parser just made.
GetCompileArgs ==
    /\ returned.fn = "CMakeParser"
    /\ \E source_file \in SourceFileChoices, std \in StandardPathChoices :
         returned' = [fn |-> "get_compile_args", source_file |-> source_file,
                      standard |-> std,
                      value |-> GetCompileArgsOf(settings, source_file, std)]
    /\ UNCHANGED <<tool_call, settings>>
    /\ UNCHANGED <<guiVars, threadVars, passVars, travVars, histVars>>
    /\ UNCHANGED <<runVars, refVars, htmlVars, parseVars>>
    /\ UNCHANGED <<analysis_module, repoState, gitOps, tree, sandboxes>>

\* Lines 249-254: get_all_source_files.
GetAllSourceFiles ==
    /\ returned.fn = "CMakeParser"
    /\ returned' = [fn |-> "get_all_source_files",
                    value |-> SettingsGet(settings, "source_files", <<>>)]
    /\ UNCHANGED <<tool_call, settings>>
    /\ UNCHANGED <<guiVars, threadVars, passVars, travVars, histVars>>
    /\ UNCHANGED <<runVars, refVars, htmlVars, parseVars>>
    /\ UNCHANGED <<analysis_module, repoState, gitOps, tree, sandboxes>>

\* Lines 256-261: get_all_header_files.
GetAllHeaderFiles ==
    /\ returned.fn = "CMakeParser"
    /\ returned' = [fn |-> "get_all_header_files",
                    value |-> SettingsGet(settings, "header_files", <<>>)]
    /\ UNCHANGED <<tool_call, settings>>
    /\ UNCHANGED <<guiVars, threadVars, passVars, travVars, histVars>>
    /\ UNCHANGED <<runVars, refVars, htmlVars, parseVars>>
    /\ UNCHANGED <<analysis_module, repoState, gitOps, tree, sandboxes>>

(***************************************************************************)
(* The helpers on their own: one call on bounded arguments                 *)
(***************************************************************************)
\* The GUI is not running while main and the parser are exercised.
InitTools ==
    /\ InitGui
    /\ repo_path = "repo"
    /\ files_listbox = <<>>
    /\ analysis_module
    /\ tool_call \in {c \in FindCalls : ValidFindCall(c)} \cup CMakeCalls
    /\ settings = EmptyMap
    /\ returned = NoReturn

NextTools ==
    \/ FindGitRepoRoot
    \/ CMakeParserInit
    \/ GetCompileArgs
    \/ GetAllSourceFiles
    \/ GetAllHeaderFiles

SpecTools == InitTools /\ [][NextTools]_vars

(***************************************************************************)
(* generate_html_graphs: the generation thread and its git_func_           *)
(* directories                                                             *)
(***************************************************************************)
MaxFuncs == 2

\* tempfile.mkdtemp(prefix='git_func_<hash>_')
FuncDirOf(commit) == <<cTmp, <<"git_func_", commit>> >>

\* The values analyze_all_commits stores: validated dicts with data.
DBoth == MkDict("nonempty", "nonempty", "missing")
StoredValues ==
    { ValidateResult(v) : v \in {w \in AnalyzerReturns \cup {DBoth} :
                                    ShouldStore(ValidateResult(w))} }

\* self.results after a history run that stored something.
HtmlStores ==
    UNION { [keys -> StoredValues] :
              keys \in (SUBSET {RevName[k] : k \in 1..MaxRevs}) \ {{}} }

\* list(self.results.keys()): the keys in the order they were stored.
KeysOf(store) == SelectSeq(RevName, LAMBDA r : r \in DOMAIN store)

\* metadata.get('defined_functions', []): the length of the list, or
\* NotAList for a value that is not a list (None).
NotAList == -1
FunctionLists(data) ==
    IF GetTruthy(data, "metadata") THEN (0..MaxFuncs) \cup {NotAList} ELSE {0}

\* Lines 1232-1270: generate_html_graphs with results at hand; the user picks
\* an output directory or cancels; the thread starts at the first commit.
GenerateHtmlGraphs ==
    /\ gen_pc \in {"idle", "g_done"}
    /\ gui_results # EmptyMap
    /\ \/ /\ gen_pc' = "g_loop"
          /\ sorted_commits' = KeysOf(gui_results)
          /\ idx' = 1
          /\ gen_path' = {}
          /\ defined_functions' = 0
          /\ func_k' = 0
          /\ temp_dir_for_func' = NoDir
       \/ /\ UNCHANGED <<gen_pc, sorted_commits, idx, gen_path,
                          defined_functions, func_k, temp_dir_for_func>>
    /\ UNCHANGED <<func_dirs, func_failed>>
    /\ UNCHANGED <<guiVars, threadVars, passVars, travVars, histVars>>
    /\ UNCHANGED <<runVars, refVars, tool_call, settings, returned, parseVars>>
    /\ UNCHANGED <<analysis_module, repoState, gitOps, tree, sandboxes>>

\* Lines 1269-1351: one commit up to the function pages.  A commit without
\* variables is skipped, a failure while writing the graph is logged by the
\* handler of line 1469, and without the analysis module only a warning is
\* logged; in each case the loop moves on before a directory is made.
GenCommit ==
    /\ gen_pc = "g_loop"
    /\ idx <= Len(sorted_commits)
    /\ LET data == gui_results[sorted_commits[idx]]
       IN  IF ~GetTruthy(data, "variables")
           THEN /\ gen_path' = {"no_variables"}
                /\ idx' = idx + 1
                /\ UNCHANGED <<gen_pc, defined_functions>>
           ELSE \/ /\ gen_path' = {"html_error"}
                   /\ idx' = idx + 1
                   /\ UNCHANGED <<gen_pc, defined_functions>>
                \/ /\ ~analysis_module
                   /\ gen_path' = {"no_module"}
                   /\ idx' = idx + 1
                   /\ UNCHANGED <<gen_pc, defined_functions>>
                \/ /\ analysis_module
                   /\ \E fl \in FunctionLists(data) : defined_functions' = fl
                   /\ gen_path' = {}
                   /\ gen_pc' = "g_mkdtemp"
                   /\ UNCHANGED idx
    /\ temp_dir_for_func' = NoDir
    /\ func_k' = 1
    /\ UNCHANGED <<sorted_commits, func_dirs, func_failed>>
    /\ UNCHANGED <<guiVars, threadVars, passVars, travVars, histVars>>
    /\ UNCHANGED <<runVars, refVars, tool_call, settings, returned, parseVars>>
    /\ UNCHANGED <<analysis_module, repoState, gitOps, tree, sandboxes>>

\* Lines 1358-1360 (and 1381-1383): mkdtemp makes the directory, or raises
\* and the handler falls back to the original file.
GenMkDTemp ==
    /\ gen_pc = "g_mkdtemp"
    /\ \/ /\ temp_dir_for_func' = FuncDirOf(sorted_commits[idx])
          /\ func_dirs' = func_dirs \cup {FuncDirOf(sorted_commits[idx])}
          /\ gen_path' = gen_path \cup {"created"}
          /\ gen_pc' = "g_tempfile"
       \/ /\ gen_path' = gen_path \cup {"temp_err"}
          /\ gen_pc' = "g_funcs"
          /\ UNCHANGED <<temp_dir_for_func, func_dirs>>
    /\ UNCHANGED <<sorted_commits, idx, defined_functions, func_k, func_failed>>
    /\ UNCHANGED <<guiVars, threadVars, passVars, travVars, histVars>>
    /\ UNCHANGED <<runVars, refVars, tool_call, settings, returned, parseVars>>
    /\ UNCHANGED <<analysis_module, repoState, gitOps, tree, sandboxes>>

\* Line 1363: `if not self.analyzer`.
NoAnalyzer(a) == a = "None"

\* Lines 1362-1383: with the directory made, a missing analyzer makes the
\* commit loop `continue` at once; otherwise the file of the commit is
\* fetched and written into the directory, and a failure on the way is
\* caught by the handler of line 1381.
GenTempFile ==
    /\ gen_pc = "g_tempfile"
    /\ IF NoAnalyzer(analyzer)
       THEN /\ gen_path' = gen_path \cup {"continue"}
            /\ idx' = idx + 1
            /\ gen_pc' = "g_loop"
       ELSE /\ \E how \in {"written", "original", "temp_err"} :
                 gen_path' = gen_path \cup {how}
            /\ gen_pc' = "g_funcs"
            /\ UNCHANGED idx
    /\ UNCHANGED <<sorted_commits, defined_functions, func_k,
                   temp_dir_for_func, func_dirs, func_failed>>
    /\ UNCHANGED <<guiVars, threadVars, passVars, travVars, histVars>>
    /\ UNCHANGED <<runVars, refVars, tool_call, settings, returned, parseVars>>
    /\ UNCHANGED <<analysis_module, repoState, gitOps, tree, sandboxes>>

\* Lines 1386-1442: the page of one function: generated, reported as an
\* analysis error, or failed with an exception caught at line 1439.  A
\* defined_functions that is not a list makes the `for` raise, outside the
\* per-function try: the handler of line 1455 takes over.
GenFunction ==
    /\ gen_pc = "g_funcs"
    /\ IF defined_functions = NotAList
       THEN /\ gen_path' = gen_path \cup {"outer_exc"}
            /\ gen_pc' = "g_cleanup"
            /\ UNCHANGED func_k
       ELSE IF func_k <= defined_functions
       THEN /\ \E how \in {"page", "func_error", "func_exc"} :
                 gen_path' = gen_path \cup {how}
            /\ func_k' = func_k + 1
            /\ UNCHANGED gen_pc
       ELSE /\ gen_pc' = "g_cleanup"
            /\ UNCHANGED <<func_k, gen_path>>
    /\ UNCHANGED <<sorted_commits, idx, defined_functions,
                   temp_dir_for_func, func_dirs, func_failed>>
    /\ UNCHANGED <<guiVars, threadVars, passVars, travVars, histVars>>
    /\ UNCHANGED <<runVars, refVars, tool_call, settings, returned, parseVars>>
    /\ UNCHANGED <<analysis_module, repoState, gitOps, tree, sandboxes>>

\* Faulty variant: the directory is removed after an error only.
NeedsFuncCleanup_OnErrorOnly(dir, events) ==
    dir # NoDir /\ "outer_exc" \in events

\* Lines 1448-1449 and 1459: `temp_dir_for_func and os.path.exists(...)`,
\* after the function loop and in the handler of line 1455 alike.
NeedsFuncCleanup(dir, events) == dir # NoDir

\* Lines 1448-1467: shutil.rmtree on the directory; its failure is passed
\* over in silence; the loop moves to the next commit.
GenCleanup ==
    /\ gen_pc = "g_cleanup"
    /\ IF NeedsFuncCleanup(temp_dir_for_func, gen_path)
       THEN \/ /\ func_dirs' = func_dirs \ {temp_dir_for_func}
               /\ func_failed' = func_failed \ {temp_dir_for_func}
               /\ gen_path' = gen_path \cup {"removed"}
            \/ /\ func_failed' = func_failed \cup {temp_dir_for_func}
               /\ gen_path' = gen_path \cup {"rmtree_failed"}
               /\ UNCHANGED func_dirs
       ELSE UNCHANGED <<func_dirs, func_failed, gen_path>>
    /\ idx' = idx + 1
    /\ gen_pc' = "g_loop"
    /\ UNCHANGED <<sorted_commits, defined_functions, func_k,
                   temp_dir_for_func>>
    /\ UNCHANGED <<guiVars, threadVars, passVars, travVars, histVars>>
    /\ UNCHANGED <<runVars, refVars, tool_call, settings, returned, parseVars>>
    /\ UNCHANGED <<analysis_module, repoState, gitOps, tree, sandboxes>>

\* Lines 1474-1476: the loop is over.
GenDone ==
    /\ gen_pc = "g_loop"
    /\ idx > Len(sorted_commits)
    /\ gen_pc' = "g_done"
    /\ UNCHANGED <<sorted_commits, idx, defined_functions, func_k,
                   temp_dir_for_func, func_dirs, func_failed, gen_path>>
    /\ UNCHANGED <<guiVars, threadVars, passVars, travVars, histVars>>
    /\ UNCHANGED <<runVars, refVars, tool_call, settings, returned, parseVars>>
    /\ UNCHANGED <<analysis_module, repoState, gitOps, tree, sandboxes>>

\* The window after a history run has stored results: an analyzer exists
\* (start_analysis returns at line 888 without one) and no run is active.
InitHtml ==
    /\ repo_path = "repo"
    /\ analyzer = "repo"
    /\ files_listbox \in TargetChoices
    /\ is_analyzing = FALSE
    /\ analyze_button = "normal"
    /\ gui_results \in HtmlStores
    /\ afterQ = <<>>
    /\ lastStart = "accepted"
    /\ report = "none"
    /\ active = 0
    /\ pc = "idle"
    /\ target_files = <<>>
    /\ commits = <<>>
    /\ i = 0
    /\ fidx = 0
    /\ temp_dir = NoDir
    /\ temp_files = <<>>
    /\ content = NoneVal
    /\ result = NoneVal
    /\ results = EmptyMap
    /\ err = "none"
    /\ trav = "done"
    /\ analysis_module \in BOOLEAN
    /\ clang_module = ~analysis_module
    /\ repoState = RepoInitial
    /\ gitOps = {}
    /\ tree = {}
    /\ sandboxes = {}
    /\ created = {}
    /\ warned = {}
    /\ attempted = {}
    /\ invoked = {}
    /\ failedAt = {}
    /\ outcome = EmptyMap
    /\ noted = {}
    /\ processing = NoEvent
    /\ progress_msg = "none"
    /\ target_function = NoFunction
    /\ language = "Python"
    /\ results_obj = "main"
    /\ wrote_obj = "none"
    /\ display_arg = "none"
    /\ export_file = NoFile
    /\ gen_pc = "idle"
    /\ sorted_commits = <<>>
    /\ idx = 0
    /\ defined_functions = 0
    /\ func_k = 0
    /\ temp_dir_for_func = NoDir
    /\ func_dirs = {}
    /\ func_failed = {}
    /\ gen_path = {}
    /\ parse_pc = "none"
    /\ parse_i = 0
    /\ scan_i = 0
    /\ tool_call = NoCall
    /\ settings = EmptyMap
    /\ returned = NoReturn

NextHtml ==
    \/ GenerateHtmlGraphs
    \/ GenCommit
    \/ GenMkDTemp
    \/ GenTempFile
    \/ GenFunction
    \/ GenCleanup
    \/ GenDone

SpecHtml == InitHtml /\ [][NextHtml]_vars

(***************************************************************************)
(* CMakeParser._parse, one loop iteration at a time                        *)
(***************************************************************************)
\* The lines of the descriptors that are parsed step by step.
StepLineChoices ==
    { <<>>,
      <<"#", " ", "c">>,
      <<"set", "(", "SOURCES">>,
      <<"set", "(", "HEADERS">>,
      <<" ", "a.cpp">>,
      <<")">>,
      <<"set", "(", "CMAKE_CXX_STANDARD", " ", "20", ")">>,
      <<"add_definitions", "(", "-D", "FOO", " ", "-D", "BAR", "=", "1", " ",
        "-Wall", ")">> }

RECURSIVE StepDescriptors(_)
StepDescriptors(n) ==
    IF n = 0 THEN {<<>>}
    ELSE LET shorter == StepDescriptors(n - 1)
         IN  shorter \cup {Append(d, l) : d \in shorter, l \in StepLineChoices}

\* Lines 66-71 as reached from line 46: the list a line opens, "none" for a
\* line that is skipped or handled by another branch.
FileListKey(line) ==
    IF \/ line = <<>>
       \/ line[1] = "#"
       \/ ContainsAny(line, IncludeNames)
       \/ ContainsAny(line, {"add_definitions"})
       \/ ContainsAny(line, StandardNames)
    THEN "none"
    ELSE IF SetCommand(line, "SOURCES") THEN "source_files"
    ELSE IF SetCommand(line, "HEADERS") THEN "header_files"
    ELSE "none"

\* Lines 53-63 and 73-79: what the sub-parser of a line that opens no file
\* list adds to the settings, whatever these hold: the include directories
\* and definitions it appends and the standard it sets ("unset" when it
\* sets none).  Worked out once for every line.
UnsetSettings == [FreshSettings EXCEPT !.cxx_standard = "unset"]
StepEffects == [l \in StepLineChoices |-> ParseLine(1, <<l>>, UnsetSettings)]

ApplyEffect(st, eff) ==
    [st EXCEPT !.include_dirs = @ \o eff.include_dirs,
               !.definitions = @ \o eff.definitions,
               !.cxx_standard = IF eff.cxx_standard = "unset" THEN @
                                ELSE eff.cxx_standard]

\* Faulty variant: a skipped line leaves the index where it is.
SkipIndex_Stuck(n) == n

\* Line 50: `i += 1` before the `continue` of a comment or blank line.
SkipIndex(n) == n + 1

\* Lines 116-119: the scan of _parse_file_list ends at the end of the file
\* or at a line that starts with ")".
ScanEnds(all_lines, n) ==
    \/ n > Len(all_lines)
    \/ /\ StripLine(all_lines[n]) # <<>>
       /\ StripLine(all_lines[n])[1] = ")"

\* Lines 29-44: _parse reads the file, resets the settings and sets i.
ParseBegin ==
    /\ tool_call.fn = "CMakeParser"
    /\ tool_call.exists
    /\ parse_pc = "none"
    /\ settings' = FreshSettings
    /\ parse_i' = 1
    /\ parse_pc' = "parse"
    /\ UNCHANGED <<tool_call, returned, scan_i, htmlVars>>
    /\ UNCHANGED <<guiVars, threadVars, passVars, travVars, histVars>>
    /\ UNCHANGED <<runVars, refVars>>
    /\ UNCHANGED <<analysis_module, repoState, gitOps, tree, sandboxes>>

\* Lines 45-81: one iteration of the loop of _parse up to `i += 1`, or up
\* to the call of _parse_file_list (lines 67, 71 and 115).
ParseIteration ==
    /\ parse_pc = "parse"
    /\ parse_i <= Len(tool_call.lines)
    /\ LET line == StripLine(tool_call.lines[parse_i])
       IN  IF line = <<>> \/ line[1] = "#"
           THEN /\ parse_i' = SkipIndex(parse_i)
                /\ UNCHANGED <<settings, parse_pc, scan_i>>
           ELSE IF FileListKey(line) # "none"
           THEN /\ scan_i' = parse_i + 1
                /\ parse_pc' = "scan"
                /\ UNCHANGED <<settings, parse_i>>
           ELSE /\ settings' = ApplyEffect(settings,
                                         StepEffects[tool_call.lines[parse_i]])
                /\ parse_i' = parse_i + 1
                /\ UNCHANGED <<parse_pc, scan_i>>
    /\ UNCHANGED <<tool_call, returned, htmlVars>>
    /\ UNCHANGED <<guiVars, threadVars, passVars, travVars, histVars>>
    /\ UNCHANGED <<runVars, refVars>>
    /\ UNCHANGED <<analysis_module, repoState, gitOps, tree, sandboxes>>

\* Lines 116-124 and 81: one iteration of the scan of _parse_file_list, or
\* its end, after which _parse goes on with its own next line.
ScanIteration ==
    /\ parse_pc = "scan"
    /\ IF ScanEnds(tool_call.lines, scan_i)
       THEN /\ parse_i' = parse_i + 1
            /\ parse_pc' = "parse"
            /\ UNCHANGED <<settings, scan_i>>
       ELSE /\ scan_i <= Len(tool_call.lines)
            /\ LET file_line == StripLine(tool_call.lines[scan_i])
                   key == FileListKey(StripLine(tool_call.lines[parse_i]))
               IN  settings' =
                     IF /\ file_line # <<>>
                        /\ file_line[1] # "#"
                        /\ ResolvePath(file_line) \in OnDisk
                     THEN [settings EXCEPT
                             ![key] = Append(@, ResolvePath(file_line))]
                     ELSE settings
            /\ scan_i' = scan_i + 1
            /\ UNCHANGED <<parse_i, parse_pc>>
    /\ UNCHANGED <<tool_call, returned, htmlVars>>
    /\ UNCHANGED <<guiVars, threadVars, passVars, travVars, histVars>>
    /\ UNCHANGED <<runVars, refVars>>
    /\ UNCHANGED <<analysis_module, repoState, gitOps, tree, sandboxes>>

\* Line 45: the condition of the loop fails and _parse returns.
ParseEnd ==
    /\ parse_pc = "parse"
    /\ parse_i > Len(tool_call.lines)
    /\ parse_pc' = "done"
    /\ UNCHANGED <<tool_call, settings, returned, parse_i, scan_i, htmlVars>>
    /\ UNCHANGED <<guiVars, threadVars, passVars, travVars, histVars>>
    /\ UNCHANGED <<runVars, refVars>>
    /\ UNCHANGED <<analysis_module, repoState, gitOps, tree, sandboxes>>

\* A parser is being made for a descriptor that exists.
InitParse ==
    /\ InitGui
    /\ repo_path = "repo"
    /\ files_listbox = <<>>
    /\ analysis_module
    /\ tool_call \in { [fn |-> "CMakeParser", exists |-> TRUE, lines |-> d] :
                         d \in StepDescriptors(MaxLines) }
    /\ settings = EmptyMap
    /\ returned = NoReturn

NextParse ==
    \/ ParseBegin
    \/ ParseIteration
    \/ ScanIteration
    \/ ParseEnd

SpecParse == InitParse /\ [][NextParse]_vars

\* _parse runs in the constructor, on one thread: a step that can be taken
\* is taken.
SpecParseFair == SpecParse /\ WF_vars(NextParse)

(***************************************************************************)
(* Properties                                                              *)
(***************************************************************************)
\* The worker is inside analyze_commit_safely's try block.
InPass == pc \in {"mkdtemp", "fetch", "write", "check_files", "analyze",
                  "cleanup"}

TargetSet == {target_files[k] : k \in DOMAIN target_files}

\* C1: during any run the only git commands issued are `git log --oneline
\* --all` and `git show <rev>:<path>`, nothing is written under the
\* repository root, and HEAD, the refs and the working tree stay as they
\* were before the run.
C1_RepositoryUntouched ==
    /\ gitOps \subseteq {"log --oneline --all", "show"}
    /\ repoState = RepoInitial

\* A run that fetched, materialized, analyzed and stored has completed.
C1_Witness ==
    /\ trav = "done"
    /\ "show" \in gitOps
    /\ created # {}
    /\ DOMAIN results # {}

\* C2 (as stated): once a revision's pass has returned, and after the run
\* has completed or failed, no sandbox directory of the run is on disk.
C2_NoSandboxRemains == ~InPass => sandboxes = {}

\* C2 (amended): once a revision's pass has returned, every sandbox
\* directory created in the run has been removed unless its removal itself
\* failed, which was reported as a warning; after the run only such
\* directories remain.
C2_RemovedUnlessRemovalFailed ==
    ~InPass => \A d \in created : d \notin sandboxes \/ d \in warned

\* A pass whose analyzer call failed has returned and its sandbox is gone.
C2_Witness ==
    /\ pc = "aggregate"
    /\ commit_hash \in failedAt
    /\ TempDirOf(commit_hash) \in created
    /\ TempDirOf(commit_hash) \notin sandboxes

\* C3: a revision whose analyzer call raised or returned an invalid value
\* is not in the result map, and once the run has ended every revision
\* after it in enumeration order has been passed to analyze_commit_safely.
C3_LaterRevisionsAttempted ==
    \A k \in 1..Len(commits) :
        commits[k] \in failedAt =>
            /\ commits[k] \notin DOMAIN results
            /\ trav \in {"done", "aborted"} =>
                 \A j \in (k + 1)..Len(commits) : commits[j] \in attempted

\* C4: when the enumeration succeeded, no failure while a revision is
\* processed (the progress callback included) makes analyze_all_commits
\* end otherwise than by returning after the last revision.
C4_RunReachesDone == trav # "aborted"

\* C5: at most one traversal worker is active, and a start_analysis request
\* made while a run is active starts no worker, answers "already in
\* progress" and changes nothing of the run.
C5_SingleTraversal ==
    /\ [](active <= 1)
    /\ [][is_analyzing =>
            /\ active' <= active
            /\ lastStart' # lastStart =>
                 /\ lastStart' = "busy"
                 /\ UNCHANGED <<active, pc, is_analyzing, gui_results,
                                results, i>>]_vars

\* A request was rejected while the worker was fetching.
C5_Witness ==
    /\ is_analyzing
    /\ lastStart = "busy"
    /\ active = 1
    /\ pc = "fetch"

\* C6: when the enumeration command fails, no file is fetched, no sandbox
\* is created, no revision is processed, the analyzer is not called and
\* the result map is empty.
C6_EnumerationFailureIsFatal ==
    trav = "failed" =>
        /\ FetchCmd \notin gitOps
        /\ created = {}
        /\ attempted = {}
        /\ invoked = {}
        /\ results = EmptyMap

\* The enumeration failed and analyze_all_commits has returned.
C6_Witness == trav = "failed" /\ pc = "returned"

\* C7: a run whose enumeration failed is never reported as a completed
\* run.
C7_FailureDistinguishable == trav = "failed" => report # "complete"

\* C8: after analyze_all_commits returns, a revision is a key of the
\* result map exactly when analyze_commit_safely returned a dict for it
\* whose 'variables' or 'metadata' is non-empty (and the value stored is
\* that dict).
C8_StoredIffMeaningful ==
    pc = "returned" =>
        \A k \in 1..Len(commits) :
            LET r == commits[k] IN
            /\ r \in DOMAIN outcome
            /\ r \in DOMAIN results <=>
                 /\ outcome[r].kind = "dict"
                 /\ \/ outcome[r].d["variables"] = "nonempty"
                    \/ outcome[r].d["metadata"] = "nonempty"
            /\ r \in DOMAIN results => results[r] = outcome[r]

\* Two revisions: the first stored, the second a dict without data.
C8_Witness ==
    /\ pc = "returned"
    /\ Len(commits) = 2
    /\ commits[1] \in DOMAIN results
    /\ commits[2] \notin DOMAIN results
    /\ outcome[commits[2]].kind = "dict"

\* C9: the files handed to the analyzer for a revision are exactly the
\* copies, at their repository-relative paths under the sandbox, of the
\* target files that lie inside the repository root and exist at the
\* revision.
C9_HandedFilesExact ==
    (pc = "cleanup" /\ commit_hash \in invoked) =>
        {temp_files[k] : k \in DOMAIN temp_files} =
        {JoinPath(TempDirOf(commit_hash), RelPath(f, RepoRoot)) :
            f \in {g \in TargetSet : IsUnder(g, RepoRoot) /\ g \in tree}}

\* C10: get_file_content_at_commit returns None and does not raise when
\* the path does not exist at the revision.
C10_AbsentIsNone ==
    /\ (pc = "write" /\ target_files[fidx] \notin tree) => content = NoneVal
    /\ (pc = "cleanup" /\ err \in {"CalledProcessError", "UnicodeDecodeError"})
          => target_files[fidx] \in tree

\* The lookup of a path missing at the revision has returned None.
C10_Witness ==
    /\ pc = "write"
    /\ target_files[fidx] \notin tree
    /\ IsUnder(target_files[fidx], RepoRoot)
    /\ content = NoneVal

\* C11: an unexpected failure of one file's content lookup does not end the
\* revision's pass: when a pass ends after such a failure, every target file
\* of the revision has still been looked up.
C11_LookupFailureIsPerFile ==
    (pc = "cleanup" /\ err = "UnicodeDecodeError") =>
        fidx > Len(target_files)

\* C12: a revision's result is stored in the result map before its sandbox
\* is cleaned up: when the result is about to be stored, the sandbox is on
\* disk and no removal has been tried.
C12_AggregatedBeforeCleanup ==
    (pc = "aggregate" /\ ShouldStore(result)) =>
        /\ TempDirOf(commit_hash) \in sandboxes
        /\ TempDirOf(commit_hash) \notin warned

\* C13: revisions are passed to analyze_commit_safely in enumeration order,
\* one after the other's pass has ended, and once the run has ended every
\* enumerated revision has been run to completion.
C13_EveryRevisionInOrder ==
    /\ \A k \in 1..Len(commits) :
          commits[k] \in attempted =>
              \A j \in 1..(k - 1) : commits[j] \in DOMAIN outcome
    /\ trav \in {"done", "aborted"} =>
          \A k \in 1..Len(commits) : commits[k] \in DOMAIN outcome

\* C14: a failed removal of the sandbox is only warned about: the step that
\* fails to remove it raises nothing, analyze_commit_safely returns the
\* revision's outcome as it stood, and the loop goes on to aggregate it and
\* to the next revision.
C14_RemovalFailureOnlyWarned ==
    /\ [][(pc = "cleanup" /\ warned' # warned) =>
            /\ pc' = "aggregate"
            /\ commit_hash \in DOMAIN outcome'
            /\ outcome'[commit_hash] = result
            /\ UNCHANGED <<trav, i, results>>]_vars
    /\ [](\A k \in 1..Len(commits) :
            (TempDirOf(commits[k]) \in warned /\ k < i
                 /\ ShouldStore(outcome[commits[k]]))
            => commits[k] \in DOMAIN results)

\* The removal of the first revision's sandbox failed, its result was stored
\* all the same and the second revision's pass has begun.
C14_Witness ==
    /\ pc = "mkdtemp"
    /\ i = 2
    /\ TempDirOf(commits[1]) \in warned
    /\ commits[1] \in DOMAIN results

\* C15: when a pass fails because the sandbox could not be created or
\* written, or because the analyzer raised or returned an invalid value,
\* a message about the failure was handed to the progress callback.
C15_FailureReported ==
    (pc = "cleanup" /\ (err = "OSError" \/ commit_hash \in failedAt)) =>
        progress_msg \in {"error", "invalid"}

\* C16: the worker never stores into a dict the control context created,
\* self.results never names the dict the worker built, and the dict queued
\* for display is not the one the worker keeps.
C16_StoreReachesControlByCopy ==
    /\ wrote_obj # "main"
    /\ results_obj # "worker"
    /\ display_arg # "worker"

\* C17: while a run is active no key of the worker's result map is removed
\* or overwritten, and the published store holds only entries the latest
\* run produced.
C17_AppendOnlyAndReplaced ==
    /\ [][is_analyzing =>
            \A r \in DOMAIN results :
                r \in DOMAIN results' /\ results'[r] = results[r]]_vars
    /\ [](\A r \in DOMAIN gui_results :
            IF r = "current"
            THEN report = "function_complete"
            ELSE r \in DOMAIN results /\ gui_results[r] = results[r])

\* A run that stored two revisions has completed and been published.
C17_Witness ==
    /\ pc = "idle"
    /\ report = "complete"
    /\ Cardinality(DOMAIN gui_results) = 2
    /\ gui_results = results

\* C18: every key of the result store, the worker's and the published one,
\* is a revision the run's enumeration returned.
C18_KeysAreRevisions ==
    (DOMAIN results \cup DOMAIN gui_results)
        \subseteq {commits[k] : k \in DOMAIN commits}

\* C19: a run with a target function that reached its analysis has done the
\* full traversal: the revisions were enumerated and each was passed
\* through analyze_commit_safely.
C19_FunctionRunTraverses ==
    (/\ pc = "w_finally"
     /\ target_function # NoFunction
     /\ report \in {"function_complete", "function_no_results"}) =>
        /\ trav = "done"
        /\ \A k \in 1..Len(commits) : commits[k] \in attempted

\* C20: every step that issues a git command is a step of the worker
\* thread: a worker is running and it is the worker that moves.
C20_BlockingCallsOnWorkerOnly ==
    [][(gitOps' # gitOps /\ gitOps' # {}) =>
          (pc # "idle" /\ pc' # pc)]_vars

\* C21 (as stated): every revision the aggregator has passed without
\* storing it, whether its outcome was None or a dict without data, has
\* been reported to the callback as having no dataflow data.
C21_EveryUnstoredNoted ==
    \A k \in 1..Len(commits) :
        (k < i /\ commits[k] \notin DOMAIN results) => commits[k] \in noted

\* C21 (amended): the aggregator reports a revision as having no dataflow
\* data exactly when its outcome is a dict whose 'variables' and 'metadata'
\* are both empty; a None outcome is dropped without a note of the
\* aggregator.
C21_EmptyDictNoted ==
    \A k \in 1..Len(commits) :
        k < i =>
            (commits[k] \in noted <=>
                /\ outcome[commits[k]].kind = "dict"
                /\ outcome[commits[k]].d["variables"] # "nonempty"
                /\ outcome[commits[k]].d["metadata"] # "nonempty")

\* Two revisions have been aggregated: the first a dict without data and
\* reported, the second None and not reported.
C21_Witness ==
    /\ Len(commits) = 2
    /\ i = 3
    /\ commits[1] \in noted
    /\ outcome[commits[2]] = NoneVal
    /\ commits[2] \notin noted

\* C22: every result analyze_all_commits has stored is a dict that has a
\* 'variables' key and a 'metadata' key.
C22_StoredHasBothKeys ==
    trav # "none" =>
        \A r \in DOMAIN results :
            /\ results[r].kind = "dict"
            /\ results[r].d["variables"] # "missing"
            /\ results[r].d["metadata"] # "missing"

\* A stored result whose 'metadata' key was filled in.
C22_Witness ==
    /\ trav = "done"
    /\ \E r \in DOMAIN results :
          /\ results[r].d["variables"] = "nonempty"
          /\ results[r].d["metadata"] = "empty"

\* C27: the 'Processing commit' events of a run count 1, 2, ... with the
\* number of enumerated revisions as their constant total; each is the
\* first event of its revision, there is one per revision begun, and the
\* percentage derived from them never decreases and stays within 0..100.
C27_ProcessingEventsCount ==
    /\ [][(processing' # processing /\ processing' # NoEvent) =>
            /\ processing'.current = processing.current + 1
            /\ processing'.total = Len(commits)
            /\ processing'.current <= processing'.total
            /\ commits[processing'.current] \notin attempted
            /\ Percent(processing') \in 0..100
            /\ (processing # NoEvent =>
                   Percent(processing') >= Percent(processing))]_vars
    /\ [](/\ ((pc \in {"enter", "aggregate"} \/ InPass) =>
                  processing.current = i)
           /\ (pc = "loop" => processing.current = i - 1)
           /\ (trav = "done" => processing.current = Len(commits)))

\* The second of two revisions has been announced.
C27_Witness ==
    /\ pc = "enter"
    /\ processing = [current |-> 2, total |-> 2]

\* C28: an analyzer that exists is bound to the repository path that is
\* selected.
C28_AnalyzerBoundToSelected == analyzer # "None" => analyzer = repo_path

\* C29: a start_analysis request that is rejected starts no worker and
\* leaves is_analyzing, the result store and the Analyze button as they
\* were.
C29_RejectedStartChangesNothing ==
    [][(lastStart' # lastStart
          /\ lastStart' \in {"busy", "no_analyzer", "no_files"}) =>
         UNCHANGED <<active, pc, is_analyzing, analyze_button, gui_results,
                     results>>]_vars

\* A request with no file listed was rejected: nothing runs and the button
\* is enabled.
C29_Witness ==
    /\ lastStart = "no_files"
    /\ files_listbox = <<>>
    /\ ~is_analyzing
    /\ active = 0
    /\ analyze_button = "normal"

\* C23: export_results leaves the result store as it is; what it writes is
\* the JSON document of exactly the entries of the store; with an empty
\* store it writes nothing.
C23_ExportLeavesStore ==
    [][(export_file' # export_file /\ export_file' # NoFile) =>
          /\ gui_results' = gui_results
          /\ gui_results # EmptyMap
          /\ (export_file'.written = "yes" =>
                /\ {e[1] : e \in export_file'.doc} = DOMAIN gui_results
                /\ \A e \in export_file'.doc : e[2] = gui_results[e[1]])]_vars

C23_Witness ==
    /\ export_file.written = "yes"
    /\ gui_results # EmptyMap
    /\ {e[1] : e \in export_file.doc} = DOMAIN gui_results

\* C30: the active-run flag is cleared on every exit path of the worker, so
\* a run never leaves the orchestrator busy for ever: the flag is clear
\* again and again, and a start_analysis request made with the flag
\* clear, an analyzer available and a file listed is never rejected.
C30_RunNeverLeavesBusy ==
    /\ []<>(~is_analyzing)
    /\ [][(lastStart' # lastStart
             /\ ~is_analyzing /\ EnsureAnalyzerOk /\ files_listbox # <<>>) =>
            (lastStart' = "accepted" /\ is_analyzing')]_vars

\* A run has ended (its finally block queued the callback that re-enables
\* the button) and the request that followed it was accepted.
C30_Witness ==
    /\ lastStart = "accepted"
    /\ is_analyzing
    /\ pc = "w_begin"
    /\ afterQ # <<>>
    /\ "enable" \in {afterQ[k] : k \in DOMAIN afterQ}

\* C25: find_git_repo_root returns the nearest directory, from the start
\* directory upward, that holds `.git`, and None when no directory on that
\* path holds one.
C25_NearestGitAncestor ==
    returned.fn = "find_git_repo_root" =>
        LET path  == ResolveArg(tool_call.file_path)
            start == IF tool_call.is_file THEN PathParent(path) ELSE path
            above == {d \in tool_call.gits : IsPrefix(d, start)}
        IN  IF above = {} THEN returned.value = NoneVal
            ELSE /\ returned.value.kind = "path"
                 /\ returned.value.path \in above
                 /\ \A d \in above : Len(d) <= Len(returned.value.path)

\* A line that sets the language standard, as a reader of the descriptor
\* sees it: set(CMAKE_CXX_STANDARD <digits>).
IsStandardSetting(line) ==
    \E d \in DigitLexemes :
        StripLine(line) = <<"set", "(", "CMAKE_CXX_STANDARD", " ", d, ")">>

\* C24: get_compile_args returns, in this order, -std=c++N with N the value
\* of the last CMAKE_CXX_STANDARD setting (17 when there is none or no
\* descriptor file), the -I flags (standard paths, the descriptor's include
\* directories, the source file's directory, the descriptor's directory)
\* and one -D flag per parsed definition; no -I flag names a directory of
\* the descriptor that does not exist.
C24_CompileArgsOrdered ==
    returned.fn = "get_compile_args" =>
        LET args     == returned.value
            lines    == tool_call.lines
            stdLines == {k \in DOMAIN lines : IsStandardSetting(lines[k])}
            last     == CHOOSE k \in stdLines : \A h \in stdLines : h <= k
            N        == IF stdLines = {} THEN "17" ELSE lines[last][5]
            dirs     == SettingsGet(settings, "include_dirs", <<>>)
            defs     == SettingsGet(settings, "definitions", <<>>)
            nStd     == Len(returned.standard)
            nI       == nStd + Len(dirs) + 2
        IN  /\ Len(args) = 1 + nI + Len(defs)
            /\ args[1] = [opt |-> "-std=c++", arg |-> <<N>>]
            /\ \A k \in 1..nStd :
                 args[1 + k] = [opt |-> "-I", arg |-> returned.standard[k]]
            /\ \A k \in 1..Len(dirs) :
                 /\ args[1 + nStd + k] = [opt |-> "-I", arg |-> dirs[k]]
                 /\ dirs[k] \in OnDisk
            /\ args[nI] = [opt |-> "-I", arg |-> LexParent(returned.source_file)]
            /\ args[1 + nI] = [opt |-> "-I", arg |-> <<SourceDir>>]
            /\ \A k \in 1..Len(defs) :
                 args[1 + nI + k] = [opt |-> "-D", arg |-> defs[k]]
            /\ (tool_call.exists /\ \E k \in DOMAIN lines :
                    ContainsAny(lines[k], {"include_directories"}))
                 => /\ <<"/proj", "/", "inc">> \in {dirs[k] : k \in DOMAIN dirs}
                    /\ <<"/proj", "/", "noinc">> \notin
                         {args[k].arg : k \in DOMAIN args}
            /\ (tool_call.exists /\ \E k \in DOMAIN lines :
                    ContainsAny(lines[k], {"add_definitions"}))
                 => {<<"FOO">>, <<"BAR">>} \subseteq {defs[k] : k \in DOMAIN defs}

\* The descriptor sets the standard twice and names an existing and a
\* missing include directory; the flags carry the later standard and the
\* existing directory.
C24_Witness ==
    /\ returned.fn = "get_compile_args"
    /\ Len(tool_call.lines) = 3
    /\ tool_call.lines[1] = <<"set", "(", "CMAKE_CXX_STANDARD", " ", "20", ")">>
    /\ tool_call.lines[2] = <<"set", "(", "CMAKE_CXX_STANDARD", " ", "14", ")">>
    /\ ContainsAny(tool_call.lines[3], {"include_directories"})
    /\ returned.value[1].arg = <<"14">>
    /\ returned.standard # <<>>
    /\ returned.value[3] = [opt |-> "-I", arg |-> <<"/proj", "/", "inc">>]

\* The lines of the descriptor from line k on, joined by blanks.
RECURSIVE JoinedFrom(_, _)
JoinedFrom(lines, k) ==
    IF k > Len(lines) THEN <<>>
    ELSE lines[k] \o <<" ">> \o JoinedFrom(lines, k + 1)

\* The paths written in the set(<word> ...) command that begins on line k:
\* the words after <word> up to the closing parenthesis, on that line or
\* on the following ones.
CommandPaths(lines, k, word) ==
    LET text  == JoinedFrom(lines, k)
        from  == FirstAt(text, 1, word) + 1
        close == FirstAt(text, from, ")")
        upto  == IF close = 0 THEN Len(text) ELSE close - 1
    IN  {ResolvePath(w) : w \in {Words(SubSeq(text, from, upto))[j] :
                                   j \in DOMAIN Words(SubSeq(text, from, upto))}}

\* The existing files listed in the set(<word> ...) commands.
ListedFiles(lines, word) ==
    UNION {CommandPaths(lines, k, word) \cap OnDisk :
             k \in {h \in DOMAIN lines : SetCommand(StripLine(lines[h]), word)}}

\* C26: get_all_source_files (get_all_header_files) returns the existing
\* files listed in the set(SOURCES ...) (set(HEADERS ...)) commands, on the
\* line of the command or on the following lines up to the closing
\* parenthesis, and no path listed outside those commands.
C26_ListedFilesReturned ==
    /\ returned.fn = "get_all_source_files" =>
         {returned.value[k] : k \in DOMAIN returned.value}
           = ListedFiles(tool_call.lines, "SOURCES")
    /\ returned.fn = "get_all_header_files" =>
         {returned.value[k] : k \in DOMAIN returned.value}
           = ListedFiles(tool_call.lines, "HEADERS")

\* C31: while a run is active the Analyze button is disabled; the button is
\* re-enabled only by a callback the worker queued after it cleared the
\* flag, and no such callback of an earlier run is waiting while a run is
\* active.
C31_ButtonDisabledWhileActive ==
    /\ [](is_analyzing =>
            /\ analyze_button = "disabled"
            /\ \A k \in DOMAIN afterQ : afterQ[k] # "enable")
    /\ [][(analyze_button = "disabled" /\ analyze_button' = "normal") =>
            /\ ~is_analyzing
            /\ afterQ # <<>>
            /\ Head(afterQ) = "enable"
            /\ pc = "idle"]_vars

\* A run was accepted, has ended, and the callback its finally block queued
\* has re-enabled the button.
C31_Witness ==
    /\ lastStart = "accepted"
    /\ trav = "done"
    /\ pc = "idle"
    /\ ~is_analyzing
    /\ afterQ = <<>>
    /\ analyze_button = "normal"

\* None of the target files can be fetched at the revision of the pass: each
\* lies outside the repository or does not exist at the revision.
NoneAvailable ==
    \A f \in TargetSet : ~IsUnder(f, RepoRoot) \/ f \notin tree

RECURSIVE PathOnDisk(_)
PathOnDisk(path) ==
    IF path = <<>> THEN <<>>
    ELSE LET front == PathOnDisk(SubSeq(path, 1, Len(path) - 1))
             last  == path[Len(path)]
         IN  IF last = cUp
             THEN (IF front = <<>> THEN <<>>
                   ELSE SubSeq(front, 1, Len(front) - 1))
             ELSE front \o <<last>>

\* C33: every file written while materializing a revision lies inside that
\* revision's own sandbox directory and not under the repository root, and
\* a target path outside the repository root is skipped before any fetch or
\* write.
C33_WritesStayInSandbox ==
    /\ [](pc \in {"fetch", "write", "check_files", "analyze"} =>
            /\ temp_dir = TempDirOf(commit_hash)
            /\ ~IsUnder(temp_dir, RepoRoot)
            /\ \A k \in DOMAIN temp_files :
                 /\ IsUnder(PathOnDisk(temp_files[k]), temp_dir)
                 /\ ~IsUnder(PathOnDisk(temp_files[k]), RepoRoot))
    /\ [][(pc = "write" /\ temp_files' # temp_files) =>
            /\ temp_files' =
                 Append(temp_files, WriteTarget(temp_dir, target_files[fidx]))
            /\ IsUnder(target_files[fidx], RepoRoot)
            /\ repoState' = repoState]_vars
    /\ [][(/\ pc = "fetch"
           /\ fidx <= Len(target_files)
           /\ ~IsUnder(target_files[fidx], RepoRoot)
           /\ (fidx' # fidx \/ pc' # pc)) =>
            /\ pc' = "fetch"
            /\ fidx' = fidx + 1
            /\ UNCHANGED <<gitOps, repoState, temp_files, content>>]_vars

\* A file was written into the sandbox of a revision whose target list
\* also names a file outside the repository, which was skipped.
C33_Witness ==
    /\ pc = "fetch"
    /\ target_files = <<FOut, FA>>
    /\ fidx = 3
    /\ temp_files = <<JoinPath(temp_dir, <<cA>>)>>

\* ---------------------------------------------------------------------
\* C34
\* ---------------------------------------------------------------------

\* An output of `git log` without a revision: nothing, or blank lines only.
BlankOutput(stdout) == \A k \in DOMAIN stdout : LogTokens(stdout[k]) = <<>>

\* C34: when `git log` succeeds with empty or blank-only output the
\* revision list is empty, no revision id is ever the empty string, and the
\* run then completes with an empty result map without entering a pass:
\* nothing is fetched, materialized or analyzed.
C34_EmptyHistoryCompletes ==
    /\ \A stdout \in LogOutputs :
         BlankOutput(stdout) => CommitsFromLog(stdout) = <<>>
    /\ [](\A k \in DOMAIN commits : commits[k] # "")
    /\ [](commits = <<>> => ~InPass /\ pc \notin {"enter", "aggregate"})
    /\ [][(pc = "enumerate" /\ pc' = "loop") =>
            /\ results' = EmptyMap
            /\ i' = 1
            /\ UNCHANGED <<sandboxes, created, invoked>>]_vars
    /\ [][(pc = "loop" /\ commits = <<>> /\ pc' # pc) =>
            /\ pc' = "returned"
            /\ trav' = "done"
            /\ results' = EmptyMap
            /\ UNCHANGED <<gitOps, repoState, sandboxes, created, invoked,
                           processing>>]_vars

\* A run over a history without revisions has completed with an empty map.
C34_Witness ==
    /\ pc = "returned"
    /\ trav = "done"
    /\ commits = <<>>
    /\ target_files # <<>>
    /\ results = EmptyMap

\* ---------------------------------------------------------------------
\* C35
\* ---------------------------------------------------------------------

DefinitionCommands == {"add_definitions", "target_compile_definitions"}

\* The NAMEs of the words of the form -DNAME=value among `words`.
RECURSIVE ValuedNames(_)
ValuedNames(words) ==
    IF words = <<>> THEN <<>>
    ELSE (IF Head(Head(words)) = "-D" /\ ContainsAny(Head(words), {"="})
          THEN <<UpTo(Tail(Head(words)), "=")>> ELSE <<>>)
           \o ValuedNames(Tail(words))

\* The NAMEs written as -DNAME=value between the parentheses of the
\* definition commands of a descriptor, from line n on, in the order they
\* are written.  `open` tells that a command begun on an earlier line is
\* not closed yet; with `multi` false only commands opened and closed on
\* one line count.
RECURSIVE WrittenNames(_, _, _, _)
WrittenNames(lines, n, open, multi) ==
    IF n > Len(lines) THEN <<>>
    ELSE LET line   == StripLine(lines[n])
             skip   == line = <<>> \/ line[1] = "#"
             starts == {k \in DOMAIN line :
                          /\ line[k] \in DefinitionCommands
                          /\ SkipBlanks(line, k + 1) <= Len(line)
                          /\ line[SkipBlanks(line, k + 1)] = "("}
             first  == CHOOSE k \in starts : \A h \in starts : k <= h
             part   == IF open THEN line
                       ELSE IF starts = {} THEN <<>>
                       ELSE SubSeq(line, SkipBlanks(line, first + 1) + 1,
                                   Len(line))
             inCmd  == open \/ starts # {}
             m      == FirstAt(part, 1, ")")
             inside == IF m = 0 THEN part ELSE SubSeq(part, 1, m - 1)
             counts == /\ ~skip
                       /\ inCmd
                       /\ (multi \/ (~open /\ m # 0))
         IN  (IF counts THEN ValuedNames(Words(inside)) ELSE <<>>)
               \o WrittenNames(lines, n + 1,
                               IF skip THEN open ELSE inCmd /\ m = 0, multi)

\* The arguments of the -D flags among compile arguments, in order.
DFlagArgs(args) ==
    LET ds == SelectSeq(args, LAMBDA f : f.opt = "-D")
    IN  [k \in DOMAIN ds |-> ds[k].arg]

\* A line with its parentheses read as blanks.
Unparen(line) ==
    [k \in DOMAIN line |-> IF line[k] \in {"(", ")"} THEN " " ELSE line[k]]

\* The names of all words of a descriptor that begin with -D, a parenthesis
\* ending a word.
DashDNames(lines) ==
    UNION { {DefinitionNames(Words(Unparen(lines[k])))[h] :
               h \in DOMAIN DefinitionNames(Words(Unparen(lines[k])))} :
            k \in DOMAIN lines }

\* Each of the names `written` has a flag of its own among `flagged`, and
\* these flags stand in the order of the names.
RECURSIVE Carried(_, _)
Carried(written, flagged) ==
    IF written = <<>> THEN TRUE
    ELSE IF flagged = <<>> THEN FALSE
    ELSE IF Head(written) = Head(flagged)
    THEN Carried(Tail(written), Tail(flagged))
    ELSE Carried(written, Tail(flagged))

C37_ParseTerminates ==
    /\ <>(parse_pc = "done")
    /\ [](/\ parse_pc = "done" => settings = Parse(tool_call.lines)
          /\ parse_pc \in {"parse", "scan", "done"} =>
                /\ parse_i \in 1..(Len(tool_call.lines) + 1)
                /\ (parse_pc = "scan" =>
                      scan_i \in (parse_i + 1)..(Len(tool_call.lines) + 1)))
    /\ [][/\ (parse_pc = "parse" /\ parse_pc' = "parse") =>
               parse_i' = parse_i + 1
          /\ (parse_pc = "scan" /\ parse_pc' = "scan") =>
               /\ scan_i' = scan_i + 1
               /\ parse_i' = parse_i
               /\ ~ScanEnds(tool_call.lines, scan_i)
          /\ (parse_pc = "scan" /\ parse_pc' = "parse") =>
               /\ parse_i' = parse_i + 1
               /\ ScanEnds(tool_call.lines, scan_i)]_vars

\* A descriptor whose file list is never closed was parsed to its end: the
\* scan ran to the end of the file and took the file.
C37_Witness ==
    /\ parse_pc = "done"
    /\ tool_call.lines = << <<"#", " ", "c">>, <<"set", "(", "SOURCES">>,
                            <<" ", "a.cpp">> >>
    /\ scan_i = 4
    /\ settings.source_files # <<>>

=========================================================================
